---- MODULE Spec2Model ----
(***************************************************************************)
(* Model of the quote generator's rules, generation and tuning:            *)
(*   backend/app/rules_eval.py   RulesEvaluator (tokenize, parse, evaluate) *)
(*   backend/app/tuning.py       TuningHelper   (tuning_stat table)        *)
(*   backend/app/auto_tuning.py  AutoTuningEngine (auto_tuning_patterns)   *)
(*   backend/app/crud.py         adjustment-log and tuning-stat queries    *)
(*   backend/app/main.py         auto_generate_quote                       *)
(*                                                                         *)
(* Numbers.  Quantities are Numeric(12,2) columns and are kept as integer  *)
(* hundredths (8.00 is 800).  Factors and confidence scores are kept as    *)
(* integer ten-thousandths (1.25 is 12500), the resolution of the          *)
(* Numeric(8,4) / Numeric(5,4) columns of auto_tuning_patterns; the        *)
(* Numeric(8,3) column tuning_stat.median_factor holds multiples of 10.    *)
(* Decimal values inside expression evaluation and the float quantities,   *)
(* prices and totals of generated items are exact rationals; Python's      *)
(* float rounding and the Decimal/float typing of the response schemas     *)
(* are not represented.                                                    *)
(*                                                                         *)
(* Specifications.  Spec, SpecConc and SpecWindow record adjustments;      *)
(* SpecGen adds the reading operations (generate, applier, insights);      *)
(* SpecEval runs single evaluate calls loop pass by loop pass; SpecQuote   *)
(* records adjustments through the two endpoints that do so.               *)
(***************************************************************************)
EXTENDS Integers, Sequences, FiniteSets, TLC

\* ------------------------------------------------------------------ bounds
MaxLog == 3          \* adjustment-log entries added in one behaviour
MaxOps == 2          \* operations each concurrent worker starts
MaxGenLog == 2       \* adjustment-log entries added between reading operations

\* ------------------------------------------------------- program constants
FScale == 10000      \* one factor unit is 0.0001
MinFactor == 8000    \* Decimal('0.8')
MaxFactor == 12000   \* Decimal('1.2')
WindowCap == 50      \* .limit(50) and recent_adjustments[-50:]
ApplyGate == 3       \* tuning_stat.n >= 3
InitialConfidence == 7000   \* Decimal("0.7")
ConfidenceStep == 500       \* old_confidence + 0.05
ConfidenceCap == 9500       \* min(0.95, ...)
ApplyConfidence == 6000     \* pattern.confidence_score > 0.6

\* ------------------------------------------------------------ static world
Companies == {"A", "B"}
Quotes == {"q1", "q2", "q3", "q4"}
RuleKeys == {"bathroom|standard", "kitchen|premium"}
ItemRefs == {"SNICK"}
NoKey == "none"

\* Quote.company_id
QuoteCompany(q) == IF q = "q3" THEN "B" ELSE "A"

\* ProjectRequirements.data room_type|finish_level of the quote; q4 has no
\* project requirements row
HasRequirements(q) == q # "q4"

QuoteKey(q) == IF q = "q2" THEN "kitchen|premium" ELSE "bathroom|standard"

\* the quote create_quote has just stored for the company before it calls
\* log_quantity_changes (its id only matters through its company)
NewQuote(c) == IF c = "A" THEN "q1" ELSE "q3"

\* (old_qty, new_qty) pairs offered to the record-adjustment operations, in
\* hundredths: ratios 1.25, 0.75, 1.1, a zero original and a negative one.
AdjPairs == { <<800, 1000>>, <<800, 600>>, <<1000, 1100>>, <<0, 500>>, <<-1000, 1000>> }

\* -------------------------------------------------------------- arithmetic
Abs(x) == IF x < 0 THEN -x ELSE x

\* num/den rounded half-up to an integer, for num >= 0 and den > 0
RoundHalfUpDiv(num, den) == (2 * num + den) \div (2 * den)

Min2(a, b) == IF a <= b THEN a ELSE b
Max2(a, b) == IF a >= b THEN a ELSE b

\* max(Decimal('0.8'), min(Decimal('1.2'), factor)) on a factor in units
ClampNone(f) == f
Clamp(f) == Max2(MinFactor, Min2(MaxFactor, f))

\* new_qty / old_qty in factor units, old_qty # 0.  The comparison with the
\* clamp limits is exact; inside the limits the quotient is rounded to a unit.
Ratio(old, new) ==
    LET n == IF old < 0 THEN -new ELSE new
        d == Abs(old)
    IN  IF n < 0 THEN -RoundHalfUpDiv((-n) * FScale, d)
        ELSE RoundHalfUpDiv(n * FScale, d)

\* ---------------------------------------------------------------- sequences
Reverse(s) == [j \in 1..Len(s) |-> s[Len(s) + 1 - j]]

\* s[-n:]
LastN(s, n) == IF Len(s) <= n THEN s ELSE SubSeq(s, Len(s) - n + 1, Len(s))

\* s[:n]
FirstN(s, n) == IF Len(s) <= n THEN s ELSE SubSeq(s, 1, n)

\* sorted(s)[r - 1]: the element of s with r - 1 elements before it in sorted
\* order (equal values ordered by position)
SortedAt(s, r) ==
    LET Before(j) == { k \in 1..Len(s) : s[k] < s[j] \/ (s[k] = s[j] /\ k < j) }
    IN  s[CHOOSE j \in 1..Len(s) : Cardinality(Before(j)) = r - 1]

\* twice the median of a non-empty list of factors (the mean of the two middle
\* values of an even list can fall between two units)
Median2(factors) ==
    LET n == Len(factors)
    IN  IF n % 2 = 0
        THEN SortedAt(factors, n \div 2) + SortedAt(factors, n \div 2 + 1)
        ELSE 2 * SortedAt(factors, n \div 2 + 1)

\* a value given as twice a factor, as the Numeric(8,3) column keeps it
StoreNumeric3(twice) == RoundHalfUpDiv(twice, 20) * 10

\* --------------------------------------------------- TuningHelper (tuning.py)
\* clamped factor of one (old_qty, new_qty) pair as log_adjustment_and_update_tuning
\* computes it
HelperFactor(old, new) == Clamp(IF old = 0 THEN FScale ELSE Ratio(old, new))

\* one quote_adjustment_log row.  key and via are not columns: they record the
\* rule key the adjustment was made under and the operation that wrote the
\* row, and are read by the claims only.
LogEntry(c, q, i, old, new, k, v) ==
    [company_id |-> c, quote_id |-> q, item_ref |-> i,
     old_qty |-> old, new_qty |-> new, key |-> k, via |-> v]

\* crud.get_tuning_stat_by_key_and_item (and what it would be without the
\* company filter)
StatRowsAnyCompany(stats, c, k, i) ==
    { s \in stats : s.key = k /\ s.item_ref = i }
StatRows(stats, c, k, i) ==
    { s \in stats : s.company_id = c /\ s.key = k /\ s.item_ref = i }

\* TuningHelper._get_recent_adjustments: newest first, at most WindowCap log
\* rows of the item in the company, rows with old_qty <= 0 skipped
RecentAdjustments(log, c, i) ==
    LET Match(e) == e.item_ref = i /\ QuoteCompany(e.quote_id) = c
        recent_logs == FirstN(Reverse(SelectSeq(log, Match)), WindowCap)
        Positive(e) == e.old_qty > 0
        kept == SelectSeq(recent_logs, Positive)
    IN  [j \in 1..Len(kept) |-> Clamp(Ratio(kept[j].old_qty, kept[j].new_qty))]

\* TuningHelper._update_existing_tuning_stat: the row as it is written
UpdatedStat(log, stat, new_factor) ==
    LET recent == LastN(Append(RecentAdjustments(log, stat.company_id, stat.item_ref),
                               new_factor), WindowCap)
    IN  [stat EXCEPT !.median_factor = StoreNumeric3(Median2(recent)),
                     !.n = Len(recent)]

UpdateExistingStat(stats, log, stat, new_factor) ==
    (stats \ {stat}) \cup {UpdatedStat(log, stat, new_factor)}

\* TuningHelper._create_new_tuning_stat
NewStat(c, k, i, factor) ==
    [company_id |-> c, key |-> k, item_ref |-> i,
     median_factor |-> StoreNumeric3(2 * factor), n |-> 1]

\* TuningHelper._update_tuning_statistics on the committed log
UpdateTuningStatistics(stats, log, c, k, i, factor) ==
    LET rows == StatRows(stats, c, k, i)
    IN  IF rows # {}
        THEN UpdateExistingStat(stats, log, CHOOSE s \in rows : TRUE, factor)
        ELSE stats \cup {NewStat(c, k, i, factor)}

\* log_adjustment_and_update_tuning as a whole, on (log, stats): the log row is
\* committed by crud.create_quote_adjustment_log before the statistics are read
HelperApply(log, stats, c, k, i, old, new) ==
    LET log2 == Append(log, LogEntry(c, NewQuote(c), i, old, new, k, "helper"))
    IN  [log |-> log2,
         stats |-> UpdateTuningStatistics(stats, log2, c, k, i, HelperFactor(old, new))]

\* -------------------------------------------- AutoTuningEngine (auto_tuning.py)
\* adjustment_factor of _update_tuning_patterns (no clamp in the code)
EngineFactor(original_qty, adjusted_qty) ==
    IF original_qty > 0 THEN Ratio(original_qty, adjusted_qty) ELSE FScale

PatternKey(q, i) == <<QuoteKey(q), i>>

PatternRows(pats, c, pk) ==
    { p \in pats : p.company_id = c /\ p.pattern_key = pk }

\* the "if pattern:" branch: weighted average, confidence + 0.05, count + 1
MergePattern(pattern, adjustment_factor) ==
    [pattern EXCEPT
       !.adjustment_factor =
           RoundHalfUpDiv(pattern.adjustment_factor * pattern.sample_count + adjustment_factor,
                          pattern.sample_count + 1),
       !.confidence_score = Min2(ConfidenceCap, pattern.confidence_score + ConfidenceStep),
       !.sample_count = pattern.sample_count + 1]

\* the "else:" branch
NewPattern(c, pk, adjustment_factor) ==
    [company_id |-> c, pattern_key |-> pk, adjustment_factor |-> adjustment_factor,
     confidence_score |-> InitialConfidence, sample_count |-> 1]

\* _update_tuning_patterns for a quote that has project requirements
UpdateTuningPatterns(pats, c, q, i, original_qty, adjusted_qty) ==
    LET pk == PatternKey(q, i)
        f == EngineFactor(original_qty, adjusted_qty)
        rows == PatternRows(pats, c, pk)
    IN  IF rows # {}
        THEN LET pattern == CHOOSE p \in rows : TRUE
             IN  (pats \ {pattern}) \cup {MergePattern(pattern, f)}
        ELSE pats \cup {NewPattern(c, pk, f)}

\* log_adjustment as a whole, on (log, patterns), for a quote of the company
\* that has project requirements: log row and pattern are committed together
\* (and what it would be if the row of the quote's item were kept up to date
\* instead of a row being added)
EngineApplyUpsert(log, pats, c, q, i, original_qty, adjusted_qty) ==
    LET Other(e) == ~(e.quote_id = q /\ e.item_ref = i)
    IN  [log |-> Append(SelectSeq(log, Other),
                        LogEntry(c, q, i, original_qty, adjusted_qty, QuoteKey(q), "engine")),
         pats |-> UpdateTuningPatterns(pats, c, q, i, original_qty, adjusted_qty)]
EngineApply(log, pats, c, q, i, original_qty, adjusted_qty) ==
    [log |-> Append(log, LogEntry(c, q, i, original_qty, adjusted_qty, QuoteKey(q), "engine")),
     pats |-> UpdateTuningPatterns(pats, c, q, i, original_qty, adjusted_qty)]

\* ------------------------------------------- expressions (rules_eval.py)
\* An expression is the sequence of its characters, each a one-character
\* string.  Decimal values are exact rationals <<numerator, denominator>> in
\* lowest terms with a positive denominator; the results the program uses pass
\* through quantize(Decimal('0.01')) and are integer hundredths.
Digits == {"0", "1", "2", "3", "4", "5", "6", "7", "8", "9"}

DigitSeq == <<"0", "1", "2", "3", "4", "5", "6", "7", "8", "9">>

Letters ==
    {"a", "b", "c", "d", "e", "f", "g", "h", "i", "j", "k", "l", "m",
     "n", "o", "p", "q", "r", "s", "t", "u", "v", "w", "x", "y", "z",
     "A", "B", "C", "D", "E", "F", "G", "H", "I", "J", "K", "L", "M",
     "N", "O", "P", "Q", "R", "S", "T", "U", "V", "W", "X", "Y", "Z"}

OperatorChars == {"+", "-", "*", "/"}

\* the character class of tokenize's re.match
AllowedChars == Letters \cup Digits \cup OperatorChars \cup {"_", "(", ")", ".", ","}

\* RulesEvaluator.OPERATORS: precedence (and what it would be with one level)
PrecedenceFlat(op) == 1
Precedence(op) == IF op \in {<<"+">>, <<"-">>} THEN 1 ELSE 2

\* the keys of RulesEvaluator.FUNCTIONS
FunctionNames ==
    { <<"c", "e", "i", "l">>, <<"f", "l", "o", "o", "r">>, <<"r", "o", "u", "n", "d">>,
      <<"m", "i", "n">>, <<"m", "a", "x">>, <<"c", "a", "s", "e">> }

RECURSIVE GCD(_, _)
GCD(a, b) == IF b = 0 THEN a ELSE GCD(b, a % b)

\* n/d in lowest terms, d # 0
Rat(n, d) ==
    LET g == GCD(Abs(n), Abs(d))
        s == IF d < 0 THEN -1 ELSE 1
    IN  <<(s * n) \div g, (s * d) \div g>>

RatInt(n) == <<n, 1>>

RatAdd(a, b) == Rat(a[1] * b[2] + b[1] * a[2], a[2] * b[2])
RatSub(a, b) == Rat(a[1] * b[2] - b[1] * a[2], a[2] * b[2])
RatMul(a, b) == Rat(a[1] * b[1], a[2] * b[2])
RatLeq(a, b) == a[1] * b[2] <= b[1] * a[2]

\* OPERATORS['/']: a / b if b != 0 else Decimal('0')
RatDiv(a, b) == IF b[1] # 0 THEN Rat(a[1] * b[2], a[2] * b[1]) ELSE RatInt(0)

\* x.quantize(Decimal('0.01'), rounding=ROUND_HALF_UP) in hundredths: ties go
\* away from zero (and what it would be with the excess digits cut off)
QuantizeDown(x) ==
    LET q == (Abs(x[1]) * 100) \div x[2]
    IN  IF x[1] < 0 THEN -q ELSE q
Quantize2(x) ==
    LET q == RoundHalfUpDiv(Abs(x[1]) * 100, x[2])
    IN  IF x[1] < 0 THEN -q ELSE q

\* FUNCTIONS: each works on the value quantized to two places
CeilFn(x) == RatInt(-((-Quantize2(x)) \div 100))
FloorFn(x) == RatInt(Quantize2(x) \div 100)
RoundFn(x) == Rat(Quantize2(x), 100)
MinFn(a, b) == IF RatLeq(a, b) THEN a ELSE b
MaxFn(a, b) == IF RatLeq(b, a) THEN a ELSE b
CaseFn(cond, a, b) == IF cond[1] # 0 THEN a ELSE b

\* Decimal(number_str) accepts digits with at most one point and at least one
\* digit
ValidNumber(s) ==
    /\ Cardinality({j \in 1..Len(s) : s[j] = "."}) <= 1
    /\ \E j \in 1..Len(s) : s[j] \in Digits

DigitValue(ch) == (CHOOSE j \in 1..10 : DigitSeq[j] = ch) - 1

RECURSIVE DigitsValue(_)
DigitsValue(s) ==
    IF s = <<>> THEN 0
    ELSE 10 * DigitsValue(SubSeq(s, 1, Len(s) - 1)) + DigitValue(s[Len(s)])

RECURSIVE Pow10(_)
Pow10(n) == IF n = 0 THEN 1 ELSE 10 * Pow10(n - 1)

\* Decimal(number_str) for a valid number string
ParseNumber(s) ==
    LET IsDigit(ch) == ch \in Digits
        points == {j \in 1..Len(s) : s[j] = "."}
        frac == IF points = {} THEN 0 ELSE Len(s) - (CHOOSE j \in points : TRUE)
    IN  Rat(DigitsValue(SelectSeq(s, IsDigit)), Pow10(frac))

Fail(kind) == [ok |-> FALSE, error |-> kind]

Token(type, value, position) == [type |-> type, value |-> value, position |-> position]

\* first index from i on whose character is not in chars (Len(e) + 1 if none)
ScanEnd(e, i, chars) ==
    LET stops == {j \in i..Len(e) : e[j] \notin chars}
    IN  IF stops = {} THEN Len(e) + 1 ELSE CHOOSE j \in stops : \A m \in stops : j <= m

\* one pass of tokenize's while loop at index i (1-based, i <= Len(e)): the
\* token appended and the index the next pass starts at, or the ValueError
TokenizeIteration(e, i) ==
    LET char == e[i]
    IN  IF char \in Digits \cup {"."}
        THEN LET j == ScanEnd(e, i, Digits \cup {"."})
                 number_str == SubSeq(e, i, j - 1)
             IN  IF ValidNumber(number_str)
                 THEN [ok |-> TRUE, token |-> Token("NUMBER", number_str, i - 1), next |-> j]
                 ELSE Fail("Invalid number format")
        ELSE IF char \in Letters \cup {"_"}
        THEN LET j == ScanEnd(e, i, Letters \cup Digits \cup {"_"})
                 identifier == SubSeq(e, i, j - 1)
             IN  IF j <= Len(e) /\ e[j] = "("
                 THEN IF identifier \notin FunctionNames
                      THEN Fail("Unknown function")
                      ELSE [ok |-> TRUE, token |-> Token("FUNCTION", identifier, i - 1),
                            next |-> j]
                 ELSE [ok |-> TRUE, token |-> Token("VARIABLE", identifier, i - 1), next |-> j]
        ELSE IF char \in OperatorChars
        THEN [ok |-> TRUE, token |-> Token("OPERATOR", <<char>>, i - 1), next |-> i + 1]
        ELSE IF char = "("
        THEN [ok |-> TRUE, token |-> Token("LEFT_PAREN", <<char>>, i - 1), next |-> i + 1]
        ELSE IF char = ")"
        THEN [ok |-> TRUE, token |-> Token("RIGHT_PAREN", <<char>>, i - 1), next |-> i + 1]
        ELSE IF char = ","
        THEN [ok |-> TRUE, token |-> Token("COMMA", <<char>>, i - 1), next |-> i + 1]
        ELSE Fail("Unexpected character")

\* the while loop of tokenize from index i (1-based) with the tokens so far
RECURSIVE TokenizeFrom(_, _, _)
TokenizeFrom(e, i, tokens) ==
    IF i > Len(e) THEN [ok |-> TRUE, tokens |-> tokens]
    ELSE LET r == TokenizeIteration(e, i)
         IN  IF r.ok THEN TokenizeFrom(e, r.next, Append(tokens, r.token)) ELSE r

\* re.match(r'^[a-zA-Z0-9_+\-*/()\.,]+$', e): one or more characters of the
\* class; $ also matches before a final newline
RegexMatch(e) ==
    LET body == IF e # <<>> /\ e[Len(e)] = "\n" THEN SubSeq(e, 1, Len(e) - 1) ELSE e
    IN  body # <<>> /\ \A j \in 1..Len(body) : body[j] \in AllowedChars

\* expression.replace(' ', ''), and what it would be if every character
\* outside the class were dropped as well
RemoveForeign(expression) ==
    LET Kept(ch) == ch \in AllowedChars
    IN  SelectSeq(expression, Kept)
RemoveSpaces(expression) ==
    LET NotSpace(ch) == ch # " "
    IN  SelectSeq(expression, NotSpace)

\* RulesEvaluator.tokenize: spaces removed, then the character check, then
\* the loop
Tokenize(expression) ==
    IF ~RegexMatch(RemoveSpaces(expression))
    THEN Fail("Expression contains invalid characters")
    ELSE TokenizeFrom(RemoveSpaces(expression), 1, <<>>)

\* largest member of a set of indices, 0 for the empty set
LastIndex(S) == IF S = {} THEN 0 ELSE CHOOSE k \in S : \A m \in S : m <= k

\* the tokens above index k of the operator stack, in the order pop() yields
\* them
Popped(stack, k) == Reverse(SubSeq(stack, k + 1, Len(stack)))

\* one token of _shunting_yard's for loop on (output, operator_stack)
ShuntToken(token, output, stack) ==
    IF token.type \in {"NUMBER", "VARIABLE"}
    THEN [ok |-> TRUE, output |-> Append(output, token), stack |-> stack]
    ELSE IF token.type \in {"FUNCTION", "LEFT_PAREN"}
    THEN [ok |-> TRUE, output |-> output, stack |-> Append(stack, token)]
    ELSE IF token.type = "OPERATOR"
    THEN LET k == LastIndex({j \in 1..Len(stack) :
                      ~(stack[j].type = "OPERATOR"
                        /\ Precedence(stack[j].value) >= Precedence(token.value))})
         IN  [ok |-> TRUE, output |-> output \o Popped(stack, k),
              stack |-> Append(SubSeq(stack, 1, k), token)]
    ELSE LET k == LastIndex({j \in 1..Len(stack) : stack[j].type = "LEFT_PAREN"})
             out == output \o Popped(stack, k)
         IN  IF token.type = "COMMA"
             THEN [ok |-> TRUE, output |-> out, stack |-> SubSeq(stack, 1, k)]
             ELSE \* RIGHT_PAREN
                  IF k = 0 THEN Fail("Mismatched parentheses")
                  ELSE IF k > 1 /\ stack[k - 1].type = "FUNCTION"
                  THEN [ok |-> TRUE, output |-> Append(out, stack[k - 1]),
                        stack |-> SubSeq(stack, 1, k - 2)]
                  ELSE [ok |-> TRUE, output |-> out, stack |-> SubSeq(stack, 1, k - 1)]

RECURSIVE ShuntFrom(_, _, _, _)
ShuntFrom(tokens, j, output, stack) ==
    IF j > Len(tokens)
    THEN \* pop remaining operators
         IF \E k \in 1..Len(stack) : stack[k].type = "LEFT_PAREN"
         THEN Fail("Mismatched parentheses")
         ELSE [ok |-> TRUE, tokens |-> output \o Popped(stack, 0)]
    ELSE LET r == ShuntToken(tokens[j], output, stack)
         IN  IF r.ok THEN ShuntFrom(tokens, j + 1, r.output, r.stack) ELSE r

\* RulesEvaluator._shunting_yard
ShuntingYard(tokens) == ShuntFrom(tokens, 1, <<>>, <<>>)

\* self.variables is a set of [name, kind, value] rows, one per name; kind is
\* "decimal" or "str"
Bound(variables, name) == { v \in variables : v.name = name }

\* s[:-n]
DropLast(s, n) == SubSeq(s, 1, Len(s) - n)

\* s[-n] for n >= 1
FromTop(s, n) == s[Len(s) + 1 - n]

\* a function token of _evaluate_rpn's loop on the value stack
ApplyFunction(name, stack) ==
    LET arity == IF name \in {<<"c", "e", "i", "l">>, <<"f", "l", "o", "o", "r">>,
                              <<"r", "o", "u", "n", "d">>} THEN 1
                 ELSE IF name = <<"c", "a", "s", "e">> THEN 3 ELSE 2
    IN  IF Len(stack) < arity THEN Fail("Insufficient operands for function")
        ELSE LET rest == DropLast(stack, arity)
                 result ==
                     IF name = <<"c", "e", "i", "l">> THEN CeilFn(FromTop(stack, 1))
                     ELSE IF name = <<"f", "l", "o", "o", "r">> THEN FloorFn(FromTop(stack, 1))
                     ELSE IF name = <<"r", "o", "u", "n", "d">> THEN RoundFn(FromTop(stack, 1))
                     ELSE IF name = <<"m", "i", "n">>
                     THEN MinFn(FromTop(stack, 2), FromTop(stack, 1))
                     ELSE IF name = <<"m", "a", "x">>
                     THEN MaxFn(FromTop(stack, 2), FromTop(stack, 1))
                     ELSE CaseFn(FromTop(stack, 3), FromTop(stack, 2), FromTop(stack, 1))
             IN  [ok |-> TRUE, stack |-> Append(rest, result)]

ApplyOperator(op, stack) ==
    IF Len(stack) < 2 THEN Fail("Insufficient operands for operator")
    ELSE LET b == FromTop(stack, 1)
             a == FromTop(stack, 2)
             result == IF op = <<"+">> THEN RatAdd(a, b)
                       ELSE IF op = <<"-">> THEN RatSub(a, b)
                       ELSE IF op = <<"*">> THEN RatMul(a, b)
                       ELSE RatDiv(a, b)
         IN  [ok |-> TRUE, stack |-> Append(DropLast(stack, 2), result)]

\* one token of _evaluate_rpn's for loop (and what it would be if a name
\* without binding stood for 0)
RpnTokenDefaulting(token, stack, variables) ==
    IF token.type = "NUMBER"
    THEN [ok |-> TRUE, stack |-> Append(stack, ParseNumber(token.value))]
    ELSE IF token.type = "VARIABLE"
    THEN LET rows == Bound(variables, token.value)
         IN  IF rows = {} THEN [ok |-> TRUE, stack |-> Append(stack, RatInt(0))]
             ELSE LET v == CHOOSE r \in rows : TRUE
                  IN  IF v.kind = "str" THEN Fail("Variable is a string")
                      ELSE [ok |-> TRUE, stack |-> Append(stack, v.value)]
    ELSE IF token.type = "OPERATOR" THEN ApplyOperator(token.value, stack)
    ELSE IF token.type = "FUNCTION" THEN ApplyFunction(token.value, stack)
    ELSE [ok |-> TRUE, stack |-> stack]
RpnToken(token, stack, variables) ==
    IF token.type = "NUMBER"
    THEN [ok |-> TRUE, stack |-> Append(stack, ParseNumber(token.value))]
    ELSE IF token.type = "VARIABLE"
    THEN LET rows == Bound(variables, token.value)
         IN  IF rows = {} THEN Fail("Undefined variable")
             ELSE LET v == CHOOSE r \in rows : TRUE
                  IN  IF v.kind = "str" THEN Fail("Variable is a string")
                      ELSE [ok |-> TRUE, stack |-> Append(stack, v.value)]
    ELSE IF token.type = "OPERATOR" THEN ApplyOperator(token.value, stack)
    ELSE IF token.type = "FUNCTION" THEN ApplyFunction(token.value, stack)
    ELSE [ok |-> TRUE, stack |-> stack]

RECURSIVE RpnFrom(_, _, _, _)
RpnFrom(rpn_tokens, j, stack, variables) ==
    IF j > Len(rpn_tokens)
    THEN IF Len(stack) # 1 THEN Fail("Invalid expression")
         ELSE [ok |-> TRUE, value |-> Quantize2(stack[1])]
    ELSE LET r == RpnToken(rpn_tokens[j], stack, variables)
         IN  IF r.ok THEN RpnFrom(rpn_tokens, j + 1, r.stack, variables) ELSE r

\* RulesEvaluator._evaluate_rpn: the result in hundredths
EvaluateRpn(rpn_tokens, variables) == RpnFrom(rpn_tokens, 1, <<>>, variables)

\* RulesEvaluator.evaluate: tokenize, _shunting_yard, _evaluate_rpn; a
\* failure of any of them is raised as ValueError
EvaluateParsed(rpn, variables) ==
    IF rpn.ok THEN EvaluateRpn(rpn.tokens, variables) ELSE rpn

EvaluateTokens(t, variables) ==
    IF t.ok THEN EvaluateParsed(ShuntingYard(t.tokens), variables) ELSE t

Evaluate(expression, variables) == EvaluateTokens(Tokenize(expression), variables)

\* --------------------------------------------- stored rows used by generate
\* project_requirements rows.  data is free-form JSONB: r1, r2, r3 and r5 hold
\* the five scalar fields; r4 is a row as create_project_requirements stores
\* it, with the list fields and notes of ProjectRequirementsIn as well.
\* area_m2 is a rational.
RequirementIds == {"r1", "r2", "r3", "r4", "r5"}

ApiExtras == <<[key |-> "material_prefs", type |-> "list"],
               [key |-> "site_constraints", type |-> "list"],
               [key |-> "notes", type |-> "NoneType"]>>

ProjectRequirements ==
    { [id |-> "r1", company_id |-> "A",
       data |-> [room_type |-> "bathroom", finish_level |-> "standard", area_m2 |-> <<10, 1>>,
                 has_plumbing_work |-> TRUE, has_electrical_work |-> FALSE, others |-> <<>>]],
      [id |-> "r2", company_id |-> "A",
       data |-> [room_type |-> "kitchen", finish_level |-> "premium", area_m2 |-> <<31, 2>>,
                 has_plumbing_work |-> FALSE, has_electrical_work |-> TRUE, others |-> <<>>]],
      [id |-> "r3", company_id |-> "B",
       data |-> [room_type |-> "bathroom", finish_level |-> "standard", area_m2 |-> <<10, 1>>,
                 has_plumbing_work |-> TRUE, has_electrical_work |-> FALSE, others |-> <<>>]],
      [id |-> "r4", company_id |-> "A",
       data |-> [room_type |-> "bathroom", finish_level |-> "standard", area_m2 |-> <<10, 1>>,
                 has_plumbing_work |-> TRUE, has_electrical_work |-> FALSE, others |-> ApiExtras]],
      [id |-> "r5", company_id |-> "B",
       data |-> [room_type |-> "kitchen", finish_level |-> "premium", area_m2 |-> <<12, 1>>,
                 has_plumbing_work |-> FALSE, has_electrical_work |-> FALSE, others |-> <<>>]] }

\* price_profile rows; vat_rate in hundredths of a percent
ProfileIds == {"p1", "p3"}

PriceProfiles ==
    { [id |-> "p1", company_id |-> "A", vat_rate |-> 2500],
      [id |-> "p3", company_id |-> "B", vat_rate |-> 2500] }

\* labor_rate rows; unit_price in hundredths
LaborRates ==
    { [company_id |-> "A", profile_id |-> "p1", code |-> "SNICK", unit_price |-> 65000],
      [company_id |-> "A", profile_id |-> "p1", code |-> "VVS", unit_price |-> 80000],
      [company_id |-> "A", profile_id |-> "p1", code |-> "MALNING", unit_price |-> 50000],
      [company_id |-> "B", profile_id |-> "p3", code |-> "SNICK", unit_price |-> 70000] }

\* material rows; unit_cost and markup_pct in hundredths
Materials ==
    { [company_id |-> "A", profile_id |-> "p1", sku |-> "KAKEL20",
       unit_cost |-> 10000, markup_pct |-> 2000],
      [company_id |-> "A", profile_id |-> "p1", sku |-> "BANK",
       unit_cost |-> 250000, markup_pct |-> 1000] }

\* the expressions of the stored rules
ExprSnickBath == <<"8", " ", "+", " ", "2", "*", "a", "r", "e", "a", "M", "2">>
ExprVvs == <<"c", "a", "s", "e", "(", "h", "a", "s", "P", "l", "u", "m", "b", "i", "n", "g", "W", "o", "r", "k", ",", "6", ",", "0", ")">>
ExprMalning == <<"r", "o", "o", "m", "T", "y", "p", "e", "*", "2">>
ExprKakel == <<"c", "e", "i", "l", "(", "a", "r", "e", "a", "M", "2", "*", "1", ".", "1", "5", ")">>
ExprFog == <<"a", "r", "e", "a", "M", "2", "/", "0">>
ExprSnickKitchen == <<"a", "r", "e", "a", "M", "2", "*", "1", ".", "5">>
ExprBank == <<"2", "-", "a", "r", "e", "a", "M", "2">>
ExprEl == <<"c", "a", "s", "e", "(", "h", "a", "s", "E", "l", "e", "c", "t", "r", "i", "c", "a", "l", "W", "o", "r", "k", ",", "4", ",", "2", ")">>

\* generation_rule rows: rules["labor"] and rules["materials"] as lists of
\* (ref, expression) in the order .items() yields them
GenerationRules ==
    { [company_id |-> "A", key |-> "bathroom|standard",
       labor |-> <<[ref |-> "VVS", expression |-> ExprVvs],
                   [ref |-> "SNICK", expression |-> ExprSnickBath],
                   [ref |-> "MALNING", expression |-> ExprMalning]>>,
       materials |-> <<[ref |-> "FOG", expression |-> ExprFog],
                       [ref |-> "KAKEL20", expression |-> ExprKakel]>>],
      [company_id |-> "A", key |-> "kitchen|premium",
       labor |-> <<[ref |-> "SNICK", expression |-> ExprSnickKitchen],
                   [ref |-> "EL", expression |-> ExprEl]>>,
       materials |-> <<[ref |-> "BANK", expression |-> ExprBank]>>],
      [company_id |-> "B", key |-> "bathroom|standard",
       labor |-> <<[ref |-> "SNICK", expression |-> ExprSnickKitchen]>>,
       materials |-> <<>>] }

\* variable names create_rules_evaluator binds
NameAreaM2 == <<"a", "r", "e", "a", "M", "2">>
NameHasPlumbingWork == <<"h", "a", "s", "P", "l", "u", "m", "b", "i", "n", "g", "W", "o", "r", "k">>
NameHasElectricalWork == <<"h", "a", "s", "E", "l", "e", "c", "t", "r", "i", "c", "a", "l", "W", "o", "r", "k">>
NameRoomType == <<"r", "o", "o", "m", "T", "y", "p", "e">>
NameFinishLevel == <<"f", "i", "n", "i", "s", "h", "L", "e", "v", "e", "l">>

DecimalVar(name, value) == [name |-> name, kind |-> "decimal", value |-> value]

StrVar(name) == [name |-> name, kind |-> "str", value |-> <<0, 1>>]

\* _convert_to_decimal on a bool
BoolDecimal(b) == IF b THEN RatInt(1) ELSE RatInt(0)

\* create_rules_evaluator and RulesEvaluator.__init__: the variables, or the
\* ValueError _convert_to_decimal raises for a value that is neither a number,
\* a bool nor a string
CreateRulesEvaluator(data) ==
    IF \E j \in 1..Len(data.others) : data.others[j].type \in {"list", "NoneType"}
    THEN Fail("Unsupported value type")
    ELSE [ok |-> TRUE,
          variables |-> { DecimalVar(NameAreaM2, data.area_m2),
                          DecimalVar(NameHasPlumbingWork, BoolDecimal(data.has_plumbing_work)),
                          DecimalVar(NameHasElectricalWork, BoolDecimal(data.has_electrical_work)),
                          StrVar(NameRoomType), StrVar(NameFinishLevel) }]

\* ------------------------------------- generation (main.auto_generate_quote)
HighItemConfidence == 9000     \* confidence = 0.9
LowItemConfidence == 3000      \* confidence = 0.3

RECURSIVE RatSum(_)
RatSum(s) == IF s = <<>> THEN RatInt(0) ELSE RatAdd(s[1], RatSum(Tail(s)))

\* qty of one rule entry: evaluator.evaluate, Decimal('0') on ValueError
QtyOf(r) == Rat(IF r.ok THEN r.value ELSE 0, 100)

EntryQty(expression, variables) == QtyOf(Evaluate(expression, variables))

AutoGeneratedItem(kind, ref, qty, unit_price, priced) ==
    [kind |-> kind, ref |-> ref, qty |-> qty, unit_price |-> unit_price,
     line_total |-> IF priced THEN RatMul(qty, unit_price) ELSE RatInt(0),
     confidence_per_item |-> IF priced THEN HighItemConfidence ELSE LowItemConfidence]

\* the labor_rate lookup and the item of one pass of the labor loop
PricedLabor(c, p, ref, qty) ==
    LET rows == { l \in LaborRates : l.company_id = c /\ l.profile_id = p /\ l.code = ref }
    IN  IF rows # {}
        THEN AutoGeneratedItem("labor", ref, qty,
                               Rat((CHOOSE l \in rows : TRUE).unit_price, 100), TRUE)
        ELSE AutoGeneratedItem("labor", ref, qty, RatInt(0), FALSE)

LaborItem(c, p, entry, variables) ==
    PricedLabor(c, p, entry.ref, EntryQty(entry.expression, variables))

\* the material lookup and the item of one pass of the materials loop:
\* unit_price = unit_cost * (1 + markup_pct / 100)
PricedMaterial(c, p, ref, qty) ==
    LET rows == { m \in Materials : m.company_id = c /\ m.profile_id = p /\ m.sku = ref }
    IN  IF rows # {}
        THEN LET material == CHOOSE m \in rows : TRUE
                 markup_multiplier == RatAdd(RatInt(1), Rat(material.markup_pct, 10000))
             IN  AutoGeneratedItem("material", ref, qty,
                                   RatMul(Rat(material.unit_cost, 100), markup_multiplier), TRUE)
        ELSE AutoGeneratedItem("material", ref, qty, RatInt(0), FALSE)

MaterialItem(c, p, entry, variables) ==
    PricedMaterial(c, p, entry.ref, EntryQty(entry.expression, variables))

\* generated_items before tuning (and what they would be if an entry without
\* catalog row were left out)
GeneratedItemsPricedOnly(c, p, rule, variables) ==
    LET Priced(item) == item.confidence_per_item = HighItemConfidence
    IN  SelectSeq([j \in 1..Len(rule.labor) |-> LaborItem(c, p, rule.labor[j], variables)]
                      \o [j \in 1..Len(rule.materials) |->
                              MaterialItem(c, p, rule.materials[j], variables)],
                  Priced)
GeneratedItems(c, p, rule, variables) ==
    [j \in 1..Len(rule.labor) |-> LaborItem(c, p, rule.labor[j], variables)]
        \o [j \in 1..Len(rule.materials) |-> MaterialItem(c, p, rule.materials[j], variables)]

\* the condition under which the tuning loop changes an item
TuningGateAny(rows) == rows # {}
TuningGate(rows) == rows # {} /\ (CHOOSE s \in rows : TRUE).n >= ApplyGate

\* confidence_per_item[item.ref] of an item the factor was applied to
AppliedTier(n) == IF n >= 10 THEN "high" ELSE IF n >= 5 THEN "med" ELSE "low"

\* "Update item": the item with the adjusted qty and the line total
\* recalculated from it (and what it would be with the line total left as
\* generated)
AdjustedItemStale(item, adjusted_qty) == [item EXCEPT !.qty = adjusted_qty]
AdjustedItem(item, adjusted_qty) ==
    [item EXCEPT !.qty = adjusted_qty, !.line_total = RatMul(adjusted_qty, item.unit_price)]

\* the tuning loop from item j on; fail_at is the index of the item whose
\* crud.get_tuning_stat_by_key_and_item raises (0: none does).  The except
\* clause keeps what the loop has done so far.
RECURSIVE TuneFrom(_, _, _, _, _, _)
TuneFrom(stats, c, rule_key, fail_at, j, acc) ==
    IF j > Len(acc.items) \/ j = fail_at THEN acc
    ELSE LET item == acc.items[j]
             rows == StatRows(stats, c, rule_key, item.ref)
         IN  IF TuningGate(rows)
             THEN LET tuning_stat == CHOOSE s \in rows : TRUE
                      clamped_factor == Clamp(tuning_stat.median_factor)
                      adjusted_qty == RatMul(item.qty, Rat(clamped_factor, FScale))
                      adjusted == AdjustedItem(item, adjusted_qty)
                  IN  TuneFrom(stats, c, rule_key, fail_at, j + 1,
                        [items |-> [acc.items EXCEPT ![j] = adjusted],
                         tuning_applied |-> Append(acc.tuning_applied,
                             [ref |-> item.ref, factor |-> clamped_factor,
                              original_qty |-> item.qty, adjusted_qty |-> adjusted_qty]),
                         confidence_per_item |-> Append(acc.confidence_per_item,
                             [ref |-> item.ref, tier |-> AppliedTier(tuning_stat.n)])])
             ELSE TuneFrom(stats, c, rule_key, fail_at, j + 1,
                        [acc EXCEPT !.confidence_per_item =
                             Append(@, [ref |-> item.ref, tier |-> "low"])])

\* "Apply auto-tuning if available"
ApplyTuningStats(stats, c, rule_key, fail_at, generated_items) ==
    TuneFrom(stats, c, rule_key, fail_at, 1,
             [items |-> generated_items, tuning_applied |-> <<>>, confidence_per_item |-> <<>>])

HttpError(op, code, request) == [op |-> op, status |-> code, request |-> request]

\* "Calculate totals" and the response.  request, rule_key, generated (the
\* items before the tuning loop) and looked_up (the number of tuning lookups
\* answered) are not part of the HTTP response: they record what the call
\* worked on.
Totalled(request, rule_key, generated, t, subtotal, vat) ==
    [op |-> "generate", status |-> 200, request |-> request, rule_key |-> rule_key,
     generated |-> generated, looked_up |-> Len(t.confidence_per_item),
     items |-> t.items, subtotal |-> subtotal, vat |-> vat, total |-> RatAdd(subtotal, vat),
     tuning_applied |-> t.tuning_applied, confidence_per_item |-> t.confidence_per_item]

LineTotals(items) == [j \in 1..Len(items) |-> items[j].line_total]

WithVat(request, rule_key, generated, t, subtotal, vat_rate) ==
    Totalled(request, rule_key, generated, t, subtotal, RatMul(subtotal, Rat(vat_rate, 10000)))

WithTotals(request, rule_key, generated, t, vat_rate) ==
    WithVat(request, rule_key, generated, t, RatSum(LineTotals(t.items)), vat_rate)

\* the tuning loop on the generated items, then the totals
Tuned(stats, request, rule_key, generated, vat_rate, fail_at) ==
    WithTotals(request, rule_key, generated,
               ApplyTuningStats(stats, request.company_id, rule_key, fail_at, generated),
               vat_rate)

\* from create_rules_evaluator on: its ValueError is not caught
GenerateWithRule(stats, request, rule, evaluator, vat_rate, fail_at) ==
    IF ~evaluator.ok THEN HttpError("generate", 500, request)
    ELSE Tuned(stats, request, rule.key,
               GeneratedItems(request.company_id, request.profile_id, rule, evaluator.variables),
               vat_rate, fail_at)

\* from "Build rule key from requirements" on
GenerateFor(stats, request, requirements, profile, fail_at) ==
    LET rule_key == requirements.data.room_type \o "|" \o requirements.data.finish_level
        rules == { g \in GenerationRules :
                     g.company_id = request.company_id /\ g.key = rule_key }
    IN  IF rules = {} THEN HttpError("generate", 400, request)
        ELSE GenerateWithRule(stats, request, CHOOSE g \in rules : TRUE,
                              CreateRulesEvaluator(requirements.data), profile.vat_rate, fail_at)

\* auto_generate_quote for the caller's company c: the response
GenerateResponse(stats, c, r, p, fail_at) ==
    LET request == [company_id |-> c, requirements_id |-> r, profile_id |-> p]
        reqs == { x \in ProjectRequirements : x.id = r /\ x.company_id = c }
        profiles == { x \in PriceProfiles : x.id = p /\ x.company_id = c }
    IN  IF reqs = {} \/ profiles = {} THEN HttpError("generate", 404, request)
        ELSE GenerateFor(stats, request, CHOOSE x \in reqs : TRUE,
                         CHOOSE x \in profiles : TRUE, fail_at)

\* ---------------------- AutoTuningEngine.apply_tuning_to_generation
\* item dicts handed to the applier: ref, qty and unit_price (rationals); an
\* item without ref is passed through
AppliedItem(pats, c, rule_key, item) ==
    LET rows == IF item.ref = "" THEN {} ELSE PatternRows(pats, c, <<rule_key, item.ref>>)
    IN  IF rows # {} /\ (CHOOSE x \in rows : TRUE).confidence_score > ApplyConfidence
        THEN LET pattern == CHOOSE x \in rows : TRUE
                 tuned_qty == RatMul(item.qty, Rat(pattern.adjustment_factor, FScale))
             IN  [ref |-> item.ref, qty |-> tuned_qty, unit_price |-> item.unit_price,
                  line_total |-> RatMul(tuned_qty, item.unit_price),
                  tuning_confidence |-> pattern.confidence_score,
                  tuning_factor |-> pattern.adjustment_factor]
        ELSE item

ApplyTuningToGeneration(pats, c, rule_key, generated_items) ==
    [j \in 1..Len(generated_items) |-> AppliedItem(pats, c, rule_key, generated_items[j])]

\* ------------------------------------- TuningHelper.get_tuning_insights
InsightTier(n) == IF n >= 10 THEN "high" ELSE IF n >= 5 THEN "medium" ELSE "low"

TuningInsights(stats, c, rule_key) ==
    LET rule_stats == { s \in stats : s.company_id = c /\ s.key = rule_key }
        Tiered(t) == Cardinality({ s \in rule_stats : InsightTier(s.n) = t })
    IN  [op |-> "tuning_insights", status |-> 200,
         request |-> [company_id |-> c, rule_key |-> rule_key], rule_key |-> rule_key,
         total_items |-> Cardinality(rule_stats),
         high_confidence_items |-> Tiered("high"),
         medium_confidence_items |-> Tiered("medium"),
         low_confidence_items |-> Tiered("low"),
         items |-> { [item_ref |-> s.item_ref, median_factor |-> s.median_factor,
                      sample_count |-> s.n, confidence |-> InsightTier(s.n)] : s \in rule_stats }]

\* ------------------------------------------------------------------- state
Workers == {"w1", "w2"}

NoCall == [via |-> "none"]

\* the record-adjustment operations return nothing the model reads
NoResponse == [op |-> "none"]

Idle == [pc |-> "idle", ops |-> 0, call |-> NoCall, seen |-> {}, write |-> {}]

\* no evaluate call in progress
NoEvaluation == [pc |-> "idle"]

VARIABLES
    adjustmentLog,   \* quote_adjustment_log rows in created_at order
    tuningStats,     \* tuning_stat rows
    patterns,        \* auto_tuning_patterns rows
    workers,         \* per request in flight: position, arguments, rows read
    completed,       \* record-adjustment requests that returned normally, in
                     \* commit order (history, read by no operation)
    response,        \* what the most recent operation returned to its caller
    evaluation       \* the RulesEvaluator.evaluate call in progress: its position
                     \* and locals

vars == <<adjustmentLog, tuningStats, patterns, workers, completed, response, evaluation>>

Init ==
    /\ adjustmentLog = <<>>
    /\ tuningStats = {}
    /\ patterns = {}
    /\ workers = [w \in Workers |-> Idle]
    /\ completed = <<>>
    /\ response = NoResponse
    /\ evaluation = NoEvaluation

\* TuningHelper.log_adjustment_and_update_tuning, called for company c
LogAdjustmentAndUpdateTuning(c, k, i, old, new) ==
    LET r == HelperApply(adjustmentLog, tuningStats, c, k, i, old, new)
    IN  /\ adjustmentLog' = r.log
        /\ tuningStats' = r.stats
        /\ response' = NoResponse
        /\ UNCHANGED evaluation
        /\ UNCHANGED <<patterns, workers, completed>>

\* AutoTuningEngine.log_adjustment, called for company c.  A quote of another
\* company returns at once; a quote without project requirements returns from
\* _update_tuning_patterns before db.commit(), so the flushed log row is
\* rolled back when the request's session closes.
LogAdjustment(c, q, i, original_qty, adjusted_qty) ==
    IF QuoteCompany(q) # c \/ ~HasRequirements(q)
    THEN /\ response' = NoResponse
         /\ UNCHANGED evaluation
         /\ UNCHANGED <<adjustmentLog, tuningStats, patterns, workers, completed>>
    ELSE LET r == EngineApply(adjustmentLog, patterns, c, q, i, original_qty, adjusted_qty)
         IN  /\ adjustmentLog' = r.log
             /\ patterns' = r.pats
             /\ response' = NoResponse
             /\ UNCHANGED evaluation
             /\ UNCHANGED <<tuningStats, workers, completed>>

HelperCalls(limit) ==
    /\ Len(adjustmentLog) < limit
    /\ \E c \in Companies, k \in RuleKeys, i \in ItemRefs, p \in AdjPairs :
           LogAdjustmentAndUpdateTuning(c, k, i, p[1], p[2])

EngineCalls(limit) ==
    /\ Len(adjustmentLog) < limit
    /\ \E c \in Companies, q \in Quotes, i \in ItemRefs, p \in AdjPairs :
           LogAdjustment(c, q, i, p[1], p[2])

HelperStep == HelperCalls(MaxLog)

EngineStep == EngineCalls(MaxLog)

Next == HelperStep \/ EngineStep

Spec == Init /\ [][Next]_vars

\* ------------------------------------------------------ concurrent requests
\* Each request runs in its own session (db.get_db) on PostgreSQL's default
\* READ COMMITTED level: a query sees what is committed when it runs, and
\* db.commit() writes the rows the session changed.  A request is split where
\* another request's commit can fall between its read and its write.
\* The requests are those of one company on one pattern.
ConcPairs == { <<800, 1000>>, <<800, 600>>, <<1000, 1100>> }

Call(v, c, q, k, i, old, new) ==
    [via |-> v, c |-> c, q |-> q, k |-> k, i |-> i, old |-> old, new |-> new]

\* log_adjustment up to and including the pattern query: the log row is
\* flushed in the open transaction, the pattern row (if any) is loaded
EngineBegin(w, c, q, i, original_qty, adjusted_qty) ==
    /\ workers[w].pc = "idle"
    /\ workers[w].ops < MaxOps
    /\ QuoteCompany(q) = c /\ HasRequirements(q)
    /\ LET seen == PatternRows(patterns, c, PatternKey(q, i))
           f == EngineFactor(original_qty, adjusted_qty)
       IN  workers' = [workers EXCEPT ![w] =
               [pc |-> "engine_read", ops |-> @.ops + 1,
                call |-> Call("engine", c, q, QuoteKey(q), i, original_qty, adjusted_qty),
                seen |-> seen,
                write |-> IF seen # {}
                          THEN {MergePattern(CHOOSE p \in seen : TRUE, f)}
                          ELSE {NewPattern(c, PatternKey(q, i), f)}]]
    /\ response' = NoResponse
    /\ UNCHANGED evaluation
    /\ UNCHANGED <<adjustmentLog, tuningStats, patterns, completed>>

\* db.commit() of _update_tuning_patterns.  The UPDATE of a loaded row sets the
\* columns to the values computed from it; the INSERT of a new row fails on
\* uq_company_pattern when the pattern was committed meanwhile, and then the
\* whole transaction, log row included, is rolled back.
EngineCommit(w) ==
    /\ workers[w].pc = "engine_read"
    /\ LET call == workers[w].call
           now == PatternRows(patterns, call.c, <<call.k, call.i>>)
       IN  IF workers[w].seen = {} /\ now # {}
           THEN UNCHANGED <<adjustmentLog, tuningStats, patterns, completed>>
           ELSE /\ patterns' = (patterns \ now) \cup workers[w].write
                /\ adjustmentLog' = Append(adjustmentLog,
                       LogEntry(call.c, call.q, call.i, call.old, call.new, call.k, "engine"))
                /\ completed' = Append(completed, call)
                /\ UNCHANGED tuningStats
    /\ workers' = [workers EXCEPT ![w] = [Idle EXCEPT !.ops = workers[w].ops]]
    /\ response' = NoResponse
    /\ UNCHANGED evaluation

\* crud.create_quote_adjustment_log: the log row is committed on its own
HelperBegin(w, c, k, i, old, new) ==
    /\ workers[w].pc = "idle"
    /\ workers[w].ops < MaxOps
    /\ adjustmentLog' = Append(adjustmentLog, LogEntry(c, NewQuote(c), i, old, new, k, "helper"))
    /\ workers' = [workers EXCEPT ![w] =
           [pc |-> "helper_logged", ops |-> @.ops + 1,
            call |-> Call("helper", c, NewQuote(c), k, i, old, new),
            seen |-> {}, write |-> {}]]
    /\ response' = NoResponse
    /\ UNCHANGED evaluation
    /\ UNCHANGED <<tuningStats, patterns, completed>>

\* _update_tuning_statistics up to the commit: the statistic and the recent
\* log rows are read and the new row is computed
HelperRead(w) ==
    /\ workers[w].pc = "helper_logged"
    /\ LET call == workers[w].call
           seen == StatRows(tuningStats, call.c, call.k, call.i)
           f == HelperFactor(call.old, call.new)
       IN  workers' = [workers EXCEPT ![w] =
               [@ EXCEPT !.pc = "helper_read", !.seen = seen,
                         !.write = IF seen # {}
                                   THEN {UpdatedStat(adjustmentLog, CHOOSE s \in seen : TRUE, f)}
                                   ELSE {NewStat(call.c, call.k, call.i, f)}]]
    /\ response' = NoResponse
    /\ UNCHANGED evaluation
    /\ UNCHANGED <<adjustmentLog, tuningStats, patterns, completed>>

\* self.db.commit() of _update_existing_tuning_stat / _create_new_tuning_stat;
\* the INSERT fails on the primary key (company_id, key, item_ref) when the
\* statistic was committed meanwhile
HelperCommit(w) ==
    /\ workers[w].pc = "helper_read"
    /\ LET call == workers[w].call
           now == StatRows(tuningStats, call.c, call.k, call.i)
       IN  IF workers[w].seen = {} /\ now # {}
           THEN UNCHANGED <<tuningStats, completed>>
           ELSE /\ tuningStats' = (tuningStats \ now) \cup workers[w].write
                /\ completed' = Append(completed, call)
    /\ workers' = [workers EXCEPT ![w] = [Idle EXCEPT !.ops = workers[w].ops]]
    /\ response' = NoResponse
    /\ UNCHANGED evaluation
    /\ UNCHANGED <<adjustmentLog, patterns>>

EngineBeginStep ==
    \E w \in Workers, p \in ConcPairs : EngineBegin(w, "A", "q1", "SNICK", p[1], p[2])

EngineCommitStep == \E w \in Workers : EngineCommit(w)

HelperBeginStep ==
    \E w \in Workers, p \in ConcPairs :
        HelperBegin(w, "A", "bathroom|standard", "SNICK", p[1], p[2])

HelperReadStep == \E w \in Workers : HelperRead(w)

HelperCommitStep == \E w \in Workers : HelperCommit(w)

NextConc ==
    \/ EngineBeginStep
    \/ EngineCommitStep
    \/ HelperBeginStep
    \/ HelperReadStep
    \/ HelperCommitStep

SpecConc == Init /\ [][NextConc]_vars

\* ---------------------------------------------------------- a long history
\* The same operations started from a store that already holds WindowCap - 1
\* log rows: company A has recorded, for SNICK under bathroom|standard, two
\* adjustments 8.0 -> 10.0 and then adjustments 0 -> 5.0.  The state is
\* computed by running log_adjustment_and_update_tuning over these calls.
HistoryLen == WindowCap - 1

HistoryCall(j) == IF j <= 2 THEN <<800, 1000>> ELSE <<0, 500>>

HistoryStep(before, j) ==
    HelperApply(before.log, before.stats, "A", "bathroom|standard", "SNICK",
                HistoryCall(j)[1], HistoryCall(j)[2])

\* the store after history calls lo..hi run in order from st
RECURSIVE ReplayFrom(_, _, _)
ReplayFrom(st, lo, hi) ==
    IF lo > hi THEN st
    ELSE IF lo = hi THEN HistoryStep(st, lo)
    ELSE LET mid == (lo + hi) \div 2
             half == ReplayFrom(st, lo, mid)
         IN  IF Len(half.log) >= 0 THEN ReplayFrom(half, mid + 1, hi) ELSE half

Replay == ReplayFrom([log |-> <<>>, stats |-> {}], 1, HistoryLen)

InitWindow ==
    /\ adjustmentLog = Replay.log
    /\ tuningStats = Replay.stats
    /\ patterns = {}
    /\ workers = [w \in Workers |-> Idle]
    /\ completed = <<>>
    /\ response = NoResponse
    /\ evaluation = NoEvaluation

WindowHelperStep == HelperCalls(HistoryLen + MaxLog)

WindowEngineStep == EngineCalls(HistoryLen + MaxLog)

NextWindow == WindowHelperStep \/ WindowEngineStep

SpecWindow == InitWindow /\ [][NextWindow]_vars

\* ------------------------------------------------------ reading operations
\* Requests are served one at a time: adjustments are recorded and, between
\* them, quotes are generated, the applier is called and insights are read.
\* A reading operation leaves its result in response until it is returned.
GenPairs == { <<800, 1000>>, <<0, 500>> }

\* the (company of the caller, requirements id, profile id) of the generate
\* requests made: for each company a request on each of its requirements
\* rows, one naming the other company's requirements and one naming the
\* other company's profile
GenRequests ==
    { <<"A", "r1", "p1">>, <<"A", "r2", "p1">>, <<"A", "r4", "p1">>,
      <<"A", "r3", "p1">>, <<"A", "r1", "p3">>,
      <<"B", "r3", "p3">>, <<"B", "r5", "p3">>, <<"B", "r1", "p3">> }

\* index of the tuning lookup that raises in a generate call (0: none)
FailPoints == {0, 1, 3}

\* the item lists handed to apply_tuning_to_generation
ApplierItems ==
    { <<[ref |-> "SNICK", qty |-> <<8, 1>>, unit_price |-> <<650, 1>>],
        [ref |-> "", qty |-> <<2, 1>>, unit_price |-> <<100, 1>>]>> }

\* POST /quotes/autogenerate by a user of company c (and what it would be if
\* each call counted as a sample of the statistics)
AutoGenerateQuoteCounting(c, r, p, fail_at) ==
    /\ response' = GenerateResponse(tuningStats, c, r, p, fail_at)
    /\ tuningStats' = { [x EXCEPT !.n = Min2(@ + 1, WindowCap)] : x \in tuningStats }
    /\ UNCHANGED <<adjustmentLog, patterns, workers, completed, evaluation>>
AutoGenerateQuote(c, r, p, fail_at) ==
    /\ response' = GenerateResponse(tuningStats, c, r, p, fail_at)
    /\ UNCHANGED <<adjustmentLog, tuningStats, patterns, workers, completed, evaluation>>

\* AutoTuningEngine(db, c).apply_tuning_to_generation: the dicts of
\* generated_items are changed in place and returned, so the caller's list
\* holds the returned items afterwards
ApplyTuning(c, rule_key, generated_items) ==
    LET tuned_items == ApplyTuningToGeneration(patterns, c, rule_key, generated_items)
    IN  /\ response' = [op |-> "apply_tuning", status |-> 200,
                        request |-> [company_id |-> c, rule_key |-> rule_key,
                                     generated_items |-> generated_items],
                        items |-> tuned_items, caller_items |-> tuned_items]
        /\ UNCHANGED <<adjustmentLog, tuningStats, patterns, workers, completed, evaluation>>

\* TuningHelper(db, c).get_tuning_insights(rule_key)
GetTuningInsights(c, rule_key) ==
    /\ response' = TuningInsights(tuningStats, c, rule_key)
    /\ UNCHANGED <<adjustmentLog, tuningStats, patterns, workers, completed, evaluation>>

GenHelperStep ==
    /\ response = NoResponse
    /\ Len(adjustmentLog) < MaxGenLog
    /\ \E c \in Companies, k \in RuleKeys, i \in ItemRefs, p \in GenPairs :
           LogAdjustmentAndUpdateTuning(c, k, i, p[1], p[2])

GenEngineStep ==
    /\ response = NoResponse
    /\ Len(adjustmentLog) < MaxGenLog
    /\ \E c \in Companies, q \in Quotes, i \in ItemRefs, p \in GenPairs :
           LogAdjustment(c, q, i, p[1], p[2])

GenerateStep ==
    /\ response = NoResponse
    /\ \E q \in GenRequests, f \in FailPoints : AutoGenerateQuote(q[1], q[2], q[3], f)

ApplyTuningStep ==
    /\ response = NoResponse
    /\ \E c \in Companies, k \in RuleKeys, items \in ApplierItems : ApplyTuning(c, k, items)

InsightsStep ==
    /\ response = NoResponse
    /\ \E c \in Companies, k \in RuleKeys : GetTuningInsights(c, k)

\* the reading operation returns: its result goes to the caller and the
\* request ends
ReturnStep ==
    /\ response # NoResponse
    /\ response' = NoResponse
    /\ UNCHANGED evaluation
    /\ UNCHANGED <<adjustmentLog, tuningStats, patterns, workers, completed>>

NextGen ==
    \/ GenHelperStep
    \/ GenEngineStep
    \/ GenerateStep
    \/ ApplyTuningStep
    \/ InsightsStep
    \/ ReturnStep

SpecGen == Init /\ [][NextGen]_vars

\* ------------------------------------------- one evaluate call, step by step
\* RulesEvaluator.evaluate on one expression: the character check, then one
\* pass of tokenize's while loop, of _shunting_yard's for loop and of
\* _evaluate_rpn's for loop per step.
MaxOperands == 3     \* operands of the infix expressions evaluated
MaxTokens == 3       \* token texts of the token strings evaluated

OperandTexts == { <<"8">>, <<"2">> }

OperatorTexts == { <<"+">>, <<"-">>, <<"*">>, <<"/">> }

\* the infix expressions of exactly n operands, with every way of putting one
\* pair of parentheses around a side that holds more than one operand
RECURSIVE InfixExpressions(_)
InfixExpressions(n) ==
    IF n = 1 THEN OperandTexts
    ELSE LET Side(m) ==
                 InfixExpressions(m) \cup
                     (IF m > 1 THEN { <<"(">> \o x \o <<")">> : x \in InfixExpressions(m) }
                      ELSE {})
         IN  UNION { { l \o op \o r : l \in Side(m), op \in OperatorTexts, r \in Side(n - m) } :
                       m \in 1..(n - 1) }

\* the texts strings of tokens are put together from
TokenTexts ==
    { <<"8">>, <<"0">>, <<"a", "r", "e", "a", "M", "2">>, <<"+">>, <<"-">>, <<"/">>,
      <<"(">>, <<")">>, <<",">> }

\* every string of at most n of these texts
RECURSIVE TokenStrings(_)
TokenStrings(n) ==
    IF n = 0 THEN { <<>> }
    ELSE LET shorter == TokenStrings(n - 1)
         IN  shorter \cup { x \o t : x \in shorter, t \in TokenTexts }

\* expressions of the rules, of the tests and of the specification's examples,
\* and strings with characters outside the class
ListedExpressions ==
    { ExprSnickBath, ExprVvs, ExprMalning, ExprKakel, ExprFog, ExprSnickKitchen, ExprBank,
      <<"1", "0", " ", "/", " ", "0">>,
      <<"8", "/", "(", "2", "-", "2", ")", "+", "1">>,
      <<"2", "-", "5">>,
      <<"1", "0", "0", "0", "*", "1", "0", "0", "0">>,
      <<"8", "-", "3", "-", "2">>,
      <<"2", "*", "3", "+", "1">>,
      <<"2", "/", "3">>,
      <<"1", "/", "8">>,
      <<"0", "-", "1", "/", "8">>,
      <<"m", "a", "x", "(", "8", ",", "2", ")">>,
      <<"m", "i", "n", "(", "8", ",", "2", ")", "*", "1", ".", "5">>,
      <<"r", "o", "u", "n", "d", "(", "2", ".", "3", "4", "5", ")">>,
      <<"f", "l", "o", "o", "r", "(", "0", "-", "1", ".", "5", ")">>,
      <<"c", "e", "i", "l", "(", ")">>,
      <<"c", "e", "i", "l", " ", "2">>,
      <<"f", "o", "o", "(", "1", ")">>,
      <<"1", ".", "2", ".", "3">>,
      <<"x", "*", "2">>,
      <<" ", " ">>,
      <<"8", "+", "2", "\n">>,
      <<"8", "\t", "+", "2">>,
      <<"2", "^", "3">>,
      <<"8", ";", "2">>,
      <<"a", "r", "e", "a", "M", "2", " ", "&", " ", "1">>,
      <<"8", "+", "2", "#">>,
      <<"_", "_", "i", "m", "p", "o", "r", "t", "_", "_", "(", "'", "o", "s", "'", ")">>,
      <<"8", "\t", "=", "2">>,
      <<"c", "a", "s", "e", "(", "1", ",", "8", ",", "x", ")">>,
      <<"c", "a", "s", "e", "(", "0", ",", "r", "o", "o", "m", "T", "y", "p", "e", ",", "8", ")">>,
      <<"c", "e", "i", "l", "(", "2", ".", "0", "0", "1", ")">>,
      <<"f", "l", "o", "o", "r", "(", "2", ".", "9", "9", "9", ")">>,
      <<"c", "e", "i", "l", "(", "a", "r", "e", "a", "M", "2", "/", "1", "0", ")">>,
      <<"1", " ", "2", " ", "+">>,
      <<"2", " ", "m", "i", "n", "(", "3", ")">>,
      <<"m", "i", "n", "(", "8", ")">>,
      <<"m", "a", "x", "(", "8", ",", "2", ",", "1", ")">>,
      <<"m", "a", "x", "(", "m", "i", "n", "(", "1", ",", "2", ",", "3", ")", ")">> }

\* the variables of the evaluators made: those of a stored requirements row,
\* and none
EvalBindings ==
    { CreateRulesEvaluator((CHOOSE x \in ProjectRequirements : x.id = "r1").data).variables, {} }

\* the (expression, variables) of the evaluate calls made
EvalCalls ==
    ((ListedExpressions \cup TokenStrings(MaxTokens)) \X EvalBindings)
        \cup ((UNION { InfixExpressions(n) : n \in 1..MaxOperands }) \X { {} })

\* the call's locals as tokenize's loop starts.  lookups, operations and
\* zero_divisions count what _evaluate_rpn has done (variable lookups,
\* operators and functions applied, divisions whose divisor was zero) and
\* exact is the value quantize was given: none is read by the code.
Started(expression, variables, e) ==
    [pc |-> "tokenize", expression |-> expression, variables |-> variables, e |-> e,
     i |-> 1, tokens |-> <<>>, j |-> 1, output |-> <<>>, operator_stack |-> <<>>,
     k |-> 1, stack |-> <<>>, lookups |-> 0, operations |-> 0, zero_divisions |-> 0,
     exact |-> RatInt(0), result |-> Fail("none")]

\* evaluate returns or raises
Finished(ev, result) == [ev EXCEPT !.pc = "done", !.result = result]

\* evaluate is called; tokenize removes the spaces and checks the characters
EvaluateBegin(expression, variables) ==
    /\ evaluation.pc = "idle"
    /\ evaluation' =
           IF ~RegexMatch(RemoveSpaces(expression))
           THEN Finished(Started(expression, variables, RemoveSpaces(expression)),
                         Fail("Expression contains invalid characters"))
           ELSE Started(expression, variables, RemoveSpaces(expression))
    /\ UNCHANGED <<adjustmentLog, tuningStats, patterns, workers, completed, response>>

\* one pass of tokenize's while loop, or its return
Tokenized(ev, r) ==
    IF r.ok THEN [ev EXCEPT !.tokens = Append(@, r.token), !.i = r.next]
    ELSE Finished(ev, r)

TokenizeLoop ==
    /\ evaluation.pc = "tokenize"
    /\ evaluation' =
           IF evaluation.i > Len(evaluation.e) THEN [evaluation EXCEPT !.pc = "parse"]
           ELSE Tokenized(evaluation, TokenizeIteration(evaluation.e, evaluation.i))
    /\ UNCHANGED <<adjustmentLog, tuningStats, patterns, workers, completed, response>>

\* one pass of _shunting_yard's for loop, or "Pop remaining operators" and
\* its return
Shunted(ev, r) ==
    IF r.ok THEN [ev EXCEPT !.output = r.output, !.operator_stack = r.stack, !.j = @ + 1]
    ELSE Finished(ev, r)

ShuntingYardLoop ==
    /\ evaluation.pc = "parse"
    /\ evaluation' =
           IF evaluation.j > Len(evaluation.tokens)
           THEN IF \E n \in 1..Len(evaluation.operator_stack) :
                       evaluation.operator_stack[n].type = "LEFT_PAREN"
                THEN Finished(evaluation, Fail("Mismatched parentheses"))
                ELSE [evaluation EXCEPT !.output = @ \o Popped(evaluation.operator_stack, 0),
                                        !.operator_stack = <<>>, !.pc = "rpn"]
           ELSE Shunted(evaluation, ShuntToken(evaluation.tokens[evaluation.j],
                                               evaluation.output, evaluation.operator_stack))
    /\ UNCHANGED <<adjustmentLog, tuningStats, patterns, workers, completed, response>>

\* the divisor b of a "/" token is zero
ZeroDivisor(token, stack) ==
    /\ token.type = "OPERATOR"
    /\ token.value = <<"/">>
    /\ Len(stack) >= 2
    /\ FromTop(stack, 1)[1] = 0

One(b) == IF b THEN 1 ELSE 0

\* one pass of _evaluate_rpn's for loop, or the length check, quantize and
\* its return
Computed(ev, token, r) ==
    IF r.ok
    THEN [ev EXCEPT !.stack = r.stack, !.k = @ + 1,
                    !.lookups = @ + One(token.type = "VARIABLE"),
                    !.operations = @ + One(token.type \in {"OPERATOR", "FUNCTION"}),
                    !.zero_divisions = @ + One(ZeroDivisor(token, ev.stack))]
    ELSE Finished([ev EXCEPT !.lookups = @ + One(token.type = "VARIABLE")], r)

EvaluateRpnLoop ==
    /\ evaluation.pc = "rpn"
    /\ evaluation' =
           IF evaluation.k > Len(evaluation.output)
           THEN IF Len(evaluation.stack) # 1
                THEN Finished(evaluation, Fail("Invalid expression"))
                ELSE Finished([evaluation EXCEPT !.exact = evaluation.stack[1]],
                              [ok |-> TRUE, value |-> Quantize2(evaluation.stack[1])])
           ELSE Computed(evaluation, evaluation.output[evaluation.k],
                         RpnToken(evaluation.output[evaluation.k], evaluation.stack,
                                  evaluation.variables))
    /\ UNCHANGED <<adjustmentLog, tuningStats, patterns, workers, completed, response>>

\* the caller has the value or the ValueError
EvaluateEnd ==
    /\ evaluation.pc = "done"
    /\ evaluation' = NoEvaluation
    /\ UNCHANGED <<adjustmentLog, tuningStats, patterns, workers, completed, response>>

EvaluateBeginStep ==
    /\ evaluation.pc = "idle"
    /\ \E call \in EvalCalls : EvaluateBegin(call[1], call[2])

NextEval ==
    \/ EvaluateBeginStep
    \/ TokenizeLoop
    \/ ShuntingYardLoop
    \/ EvaluateRpnLoop
    \/ EvaluateEnd

SpecEval == Init /\ [][NextEval]_vars

\* ------------------------------------------------- quote requests (main.py)
\* Requests that record adjustments as the endpoints make them: POST /quotes
\* with source_items (log_quantity_changes) and POST /quotes/{id}/adjustments
\* (log_quote_adjustment).  Each leaves what it returned in response until it
\* is returned; logged_before is the length of the log as the request found it
\* and is read by the claims only.
MaxQuoteLog == 2     \* adjustment-log entries present when a request may still add some

\* an item dict of a quote request: ref ("" when it has neither ref nor
\* description) and qty in hundredths
QuoteItem(ref, qty) == [ref |-> ref, qty |-> qty]

\* percentage_diff >= threshold, under "if old_qty > 0"
AboveThreshold(old_qty, new_qty) ==
    old_qty > 0 /\ 100 * Abs(new_qty - old_qty) >= old_qty

\* the database session of a request and the rows committed through it; after
\* a commit that raised, the session refuses every statement until a rollback
\* (which log_quantity_changes never issues)
Session(log, stats) == [log |-> log, stats |-> stats, usable |-> TRUE]

\* _log_basic_adjustment: the row is committed, or the exception is printed
LogBasicAdjustment(st, c, q, k, ref, old_qty, new_qty) ==
    IF st.usable
    THEN [st EXCEPT !.log = Append(@, LogEntry(c, q, ref, old_qty, new_qty, k, "basic"))]
    ELSE st

\* the try block around tuning_helper.log_adjustment_and_update_tuning and its
\* except clause.  kind says how the helper call ends: "none" normally,
\* "error" with an exception raised in _update_tuning_statistics before its
\* commit, "db" with an exception raised by that commit.  In both the log row
\* is already committed by crud.create_quote_adjustment_log.
LogWithHelper(st, c, q, k, ref, old_qty, new_qty, kind) ==
    IF ~st.usable THEN st
    ELSE IF kind = "none"
    THEN LET r == HelperApply(st.log, st.stats, c, k, ref, old_qty, new_qty)
         IN  [st EXCEPT !.log = r.log, !.stats = r.stats]
    ELSE IF kind = "error"
    THEN LogBasicAdjustment(
             [st EXCEPT !.log = Append(@, LogEntry(c, q, ref, old_qty, new_qty, k, "helper"))],
             c, q, k, ref, old_qty, new_qty)
    ELSE [st EXCEPT !.log = Append(@, LogEntry(c, q, ref, old_qty, new_qty, k, "helper")),
                    !.usable = FALSE]

\* source_lookup.get(ref): the index of the last source item with the ref, 0
\* if there is none
SourceIndex(source_items, ref) ==
    LastIndex({ m \in 1..Len(source_items) : source_items[m].ref = ref })

\* one pass of "for final_item in final_items"; k is NoKey when room_type or
\* finish_level is missing
ChangeOf(st, c, k, source_items, final_item, kind) ==
    LET at == SourceIndex(source_items, final_item.ref)
    IN  IF final_item.ref = "" \/ at = 0 THEN st
        ELSE IF ~AboveThreshold(source_items[at].qty, final_item.qty) THEN st
        ELSE IF k # NoKey
        THEN LogWithHelper(st, c, NewQuote(c), k, final_item.ref,
                           source_items[at].qty, final_item.qty, kind)
        ELSE LogBasicAdjustment(st, c, NewQuote(c), k, final_item.ref,
                                source_items[at].qty, final_item.qty)

\* the loop from final item j on; fault.at is the index of the final item
\* whose helper call ends as fault.kind says
RECURSIVE ChangesFrom(_, _, _, _, _, _, _)
ChangesFrom(st, c, k, source_items, final_items, fault, j) ==
    IF j > Len(final_items) THEN st
    ELSE ChangesFrom(ChangeOf(st, c, k, source_items, final_items[j],
                              IF fault.at = j THEN fault.kind ELSE "none"),
                     c, k, source_items, final_items, fault, j + 1)

\* log_quantity_changes on the committed rows
LogQuantityChanges(log, stats, c, k, source_items, final_items, fault) ==
    IF source_items = <<>> THEN Session(log, stats)
    ELSE ChangesFrom(Session(log, stats), c, k, source_items, final_items, fault, 1)

QuoteCreated(st, request) ==
    /\ adjustmentLog' = st.log
    /\ tuningStats' = st.stats
    /\ response' = [op |-> "create_quote", status |-> 200, request |-> request,
                    logged_before |-> Len(adjustmentLog)]
    /\ UNCHANGED <<patterns, workers, completed, evaluation>>

\* POST /quotes by a user of company c
CreateQuote(c, k, source_items, items, fault) ==
    QuoteCreated(LogQuantityChanges(adjustmentLog, tuningStats, c, k, source_items, items, fault),
                 [company_id |-> c, quote_id |-> NewQuote(c), key |-> k,
                  source_items |-> source_items, items |-> items, fault |-> fault])

\* the row log_adjustment adds and flushes
FlushedEntry(c, q, i, original_qty, adjusted_qty) ==
    LogEntry(c, q, i, original_qty, adjusted_qty,
             IF HasRequirements(q) THEN QuoteKey(q) ELSE NoKey, "engine")

\* POST /quotes/{quote_id}/adjustments by a user of company c.  The handler's
\* query finds the flushed row in its own transaction and returns it; only
\* _update_tuning_patterns commits, and for a quote without project
\* requirements it returns before it does, so get_db's close() rolls the row
\* back.
LogQuoteAdjustment(c, q, i, original_qty, adjusted_qty) ==
    LET request == [company_id |-> c, quote_id |-> q, item_ref |-> i,
                    original_qty |-> original_qty, adjusted_qty |-> adjusted_qty]
    IN  IF QuoteCompany(q) # c
        THEN /\ response' = HttpError("log_quote_adjustment", 404, request)
             /\ UNCHANGED <<adjustmentLog, tuningStats, patterns, workers, completed, evaluation>>
        ELSE /\ response' = [op |-> "log_quote_adjustment", status |-> 200,
                             request |-> request,
                             entry |-> FlushedEntry(c, q, i, original_qty, adjusted_qty),
                             logged_before |-> Len(adjustmentLog)]
             /\ IF HasRequirements(q)
                THEN /\ adjustmentLog' =
                            EngineApply(adjustmentLog, patterns, c, q, i,
                                        original_qty, adjusted_qty).log
                     /\ patterns' =
                            EngineApply(adjustmentLog, patterns, c, q, i,
                                        original_qty, adjusted_qty).pats
                ELSE UNCHANGED <<adjustmentLog, patterns>>
             /\ UNCHANGED <<tuningStats, workers, completed, evaluation>>

\* (source_items, items) of the quote requests: one change of 25 %; changes
\* of 0.5 % and of exactly 1 %; two changes; an item without ref, one without
\* source and an unchanged one; two items with one ref; no source_items; a
\* source quantity of 0
QuoteRequests ==
    { << <<QuoteItem("SNICK", 800), QuoteItem("VVS", 600)>>,
         <<QuoteItem("SNICK", 1000), QuoteItem("VVS", 600)>> >>,
      << <<QuoteItem("SNICK", 800), QuoteItem("VVS", 600)>>,
         <<QuoteItem("SNICK", 804), QuoteItem("VVS", 606)>> >>,
      << <<QuoteItem("SNICK", 800), QuoteItem("VVS", 600)>>,
         <<QuoteItem("SNICK", 1000), QuoteItem("VVS", 900)>> >>,
      << <<QuoteItem("SNICK", 800), QuoteItem("VVS", 600)>>,
         <<QuoteItem("", 1000), QuoteItem("MALNING", 500), QuoteItem("SNICK", 800)>> >>,
      << <<QuoteItem("SNICK", 800)>>,
         <<QuoteItem("SNICK", 1000), QuoteItem("SNICK", 600)>> >>,
      << <<>>, <<QuoteItem("SNICK", 1000)>> >>,
      << <<QuoteItem("SNICK", 0)>>, <<QuoteItem("SNICK", 500)>> >> }

\* room_type|finish_level of a quote request (NoKey: not given)
QuoteKeys == { "bathroom|standard", NoKey }

\* how the helper calls of a request end
Faults ==
    { [at |-> 0, kind |-> "none"], [at |-> 1, kind |-> "error"],
      [at |-> 1, kind |-> "db"], [at |-> 2, kind |-> "error"] }

\* (original_qty, adjusted_qty) sent to the adjustments endpoint, which
\* accepts any original_qty and an adjusted_qty above 0
QuotePairs == { <<800, 1000>>, <<800, 804>>, <<0, 500>>, <<-1000, 1000>> }

CreateQuoteStep ==
    /\ response = NoResponse
    /\ Len(adjustmentLog) < MaxQuoteLog
    /\ \E c \in Companies, k \in QuoteKeys, r \in QuoteRequests, fault \in Faults :
           CreateQuote(c, k, r[1], r[2], fault)

LogQuoteAdjustmentStep ==
    /\ response = NoResponse
    /\ Len(adjustmentLog) < MaxQuoteLog
    /\ \E c \in Companies, q \in Quotes, i \in ItemRefs, p \in QuotePairs :
           LogQuoteAdjustment(c, q, i, p[1], p[2])

NextQuote ==
    \/ CreateQuoteStep
    \/ LogQuoteAdjustmentStep
    \/ GenerateStep
    \/ ReturnStep

SpecQuote == Init /\ [][NextQuote]_vars

\* ================================================================== claims

\* C1: after any sequence of log_adjustment_and_update_tuning calls, whatever
\* old_qty and new_qty were (zero, negative, extreme ratios), every stored
\* tuning statistic has its median_factor in [0.8, 1.2].
C1_MedianFactorClamped ==
    \A s \in tuningStats : MinFactor <= s.median_factor /\ s.median_factor <= MaxFactor

\* a statistic updated at least once sits at the upper limit while the log
\* holds an adjustment of its item whose raw ratio lies above the limit
C1_Witness ==
    \E s \in tuningStats :
        /\ s.n > 1
        /\ s.median_factor = MaxFactor
        /\ \E j \in 1..Len(adjustmentLog) :
               /\ adjustmentLog[j].item_ref = s.item_ref
               /\ adjustmentLog[j].key = s.key
               /\ adjustmentLog[j].old_qty > 0
               /\ Ratio(adjustmentLog[j].old_qty, adjustmentLog[j].new_qty) > MaxFactor

\* C2: after any sequence of AutoTuningEngine.log_adjustment calls every
\* stored pattern has adjustment_factor in [0.8, 1.2], on creation and on
\* update (a first adjustment 8.0 -> 10.0 would store 1.20 with count 1).
C2_PatternFactorClamped ==
    \A p \in patterns :
        MinFactor <= p.adjustment_factor /\ p.adjustment_factor <= MaxFactor

\* the adjustments logged so far through operation v for (tenant, rule key,
\* item ref), oldest first, and the clamped factor section 4.6 gives each
LoggedFor(v, c, k, i) ==
    LET Match(e) == e.via = v /\ e.company_id = c /\ e.key = k /\ e.item_ref = i
    IN  SelectSeq(adjustmentLog, Match)

SpecFactor(e) == Clamp(IF e.old_qty <= 0 THEN FScale ELSE Ratio(e.old_qty, e.new_qty))

WindowOf(entries) ==
    LET w == LastN(entries, WindowCap)
    IN  [j \in 1..Len(w) |-> SpecFactor(w[j])]

\* C8: once a pattern has been adjusted again after its creation, its stored
\* factor is the median of the most recent at most 50 clamped factors logged
\* for exactly its (tenant, rule key, item ref), each adjustment counted once.
C8_FactorIsWindowMedian ==
    /\ \A s \in tuningStats :
           LET mine == LoggedFor("helper", s.company_id, s.key, s.item_ref)
           IN  Len(mine) >= 2 =>
                   s.median_factor = StoreNumeric3(Median2(WindowOf(mine)))
    /\ \A p \in patterns :
           LET mine == LoggedFor("engine", p.company_id, p.pattern_key[1], p.pattern_key[2])
           IN  Len(mine) >= 2 =>
                   p.adjustment_factor = RoundHalfUpDiv(Median2(WindowOf(mine)), 2)

\* C9: from an absent pattern, after the k-th logged adjustment the stored
\* sample count is min(k, 50).
C9_CountIsAdjustments ==
    /\ \A s \in tuningStats :
           s.n = Min2(WindowCap, Len(LoggedFor("helper", s.company_id, s.key, s.item_ref)))
    /\ \A p \in patterns :
           p.sample_count =
               Min2(WindowCap, Len(LoggedFor("engine", p.company_id,
                                             p.pattern_key[1], p.pattern_key[2])))

\* C4: with no deletion, the stored sample count of a pattern never decreases
\* from one state to the next, whatever adjustments are recorded (zero
\* original quantities, the same item under other rule keys).
C4_CountNeverDecreases ==
    [][ /\ \A s \in tuningStats : \A t \in tuningStats' :
               (t.company_id = s.company_id /\ t.key = s.key /\ t.item_ref = s.item_ref)
                   => t.n >= s.n
        /\ \A p \in patterns : \A r \in patterns' :
               (r.company_id = p.company_id /\ r.pattern_key = p.pattern_key)
                   => r.sample_count >= p.sample_count ]_vars

\* one record-adjustment request run alone, start to end, on a store
ApplyCall(st, call) ==
    IF call.via = "helper"
    THEN LET r == HelperApply(st.log, st.stats, call.c, call.k, call.i, call.old, call.new)
         IN  [log |-> r.log, stats |-> r.stats, pats |-> st.pats]
    ELSE LET r == EngineApply(st.log, st.pats, call.c, call.q, call.i, call.old, call.new)
         IN  [log |-> r.log, stats |-> st.stats, pats |-> r.pats]

\* the store after the calls run one after the other in the order perm
RECURSIVE SerialRun(_, _, _, _)
SerialRun(st, calls, perm, j) ==
    IF j > Len(calls) THEN st
    ELSE SerialRun(ApplyCall(st, calls[perm[j]]), calls, perm, j + 1)

AllIdle == \A w \in Workers : workers[w].pc = "idle"

\* C3: when record-adjustment requests on one (tenant, pattern key) overlap,
\* no update is lost: once all have finished, the stored counts and factors
\* are those of some serial execution of the requests that returned.
C3_NoLostUpdate ==
    AllIdle =>
        \E perm \in Permutations(1..Len(completed)) :
            LET st == SerialRun([log |-> <<>>, stats |-> {}, pats |-> {}], completed, perm, 1)
            IN  st.stats = tuningStats /\ st.pats = patterns

\* at most one row per (tenant, pattern key) in either table
UniquePerKey ==
    /\ \A p \in patterns : \A r \in patterns :
           (r.company_id = p.company_id /\ r.pattern_key = p.pattern_key) => r = p
    /\ \A s \in tuningStats : \A t \in tuningStats :
           (t.company_id = s.company_id /\ t.key = s.key /\ t.item_ref = s.item_ref) => t = s

\* a step keeps every existing row, or replaces it by the engine's own merge of
\* that row with one adjustment
MergedOnly ==
    /\ \A p \in patterns :
           LET after == PatternRows(patterns', p.company_id, p.pattern_key)
           IN  /\ after # {}
               /\ \A r \in after :
                      r = p \/ \E a \in AdjPairs : r = MergePattern(p, EngineFactor(a[1], a[2]))
    /\ \A s \in tuningStats :
           LET after == StatRows(tuningStats', s.company_id, s.key, s.item_ref)
           IN  /\ after # {}
               /\ \A t \in after :
                      t = s \/ \E a \in AdjPairs :
                                   t = UpdatedStat(adjustmentLog', s, HelperFactor(a[1], a[2]))

\* C10: in every reachable state, also after concurrent first adjustments of
\* an absent pattern, there is at most one pattern per (tenant, pattern key),
\* and an existing pattern is only changed by the merge rule, never created
\* again or overwritten regardless of its content.
C10_UniqueAndMergedOnly == []UniquePerKey /\ [][MergedOnly]_vars

\* ------------------------------------------------------- generation claims
\* a generate call that returned its items
GeneratedOk == response.op = "generate" /\ response.status = 200

\* the tuning statistics a generate response was computed from (generate
\* leaves the store as it is)
ResponseStatRows(ref) ==
    { s \in tuningStats : /\ s.company_id = response.request.company_id
                          /\ s.key = response.rule_key
                          /\ s.item_ref = ref }

ListedAsTuned(ref) ==
    \E t \in 1..Len(response.tuning_applied) : response.tuning_applied[t].ref = ref

TierOf(ref) ==
    { response.confidence_per_item[t].tier :
          t \in { u \in 1..Len(response.confidence_per_item) :
                     response.confidence_per_item[u].ref = ref } }

\* C5: in a generate response every item whose tuning lookup was answered has
\* its generated qty multiplied by the stored factor, its line_total
\* recomputed and an entry in tuning_applied if and only if a tuning statistic
\* of (company, rule key, item ref) with n >= 3 exists; otherwise qty and
\* line_total are exactly the generated ones and the tier is "low".
C5_FactorAppliedIffGate ==
    GeneratedOk =>
        \A j \in 1..response.looked_up :
            LET item == response.items[j]
                base == response.generated[j]
                rows == ResponseStatRows(item.ref)
            IN  IF \E s \in rows : s.n >= 3
                THEN /\ ListedAsTuned(item.ref)
                     /\ \E s \in rows :
                            item.qty = RatMul(base.qty, Rat(s.median_factor, FScale))
                     /\ item.line_total = RatMul(item.qty, item.unit_price)
                ELSE /\ ~ListedAsTuned(item.ref)
                     /\ item.qty = base.qty
                     /\ item.line_total = base.line_total
                     /\ TierOf(item.ref) = {"low"}

\* C5 witness: a response in which one item was multiplied by a factor other
\* than 1 on a statistic with n >= 3 and another item, without a statistic,
\* was passed through.
C5_Witness ==
    /\ GeneratedOk
    /\ \E j \in 1..response.looked_up :
           /\ \E s \in ResponseStatRows(response.items[j].ref) :
                  s.n >= 3 /\ s.median_factor # FScale
           /\ response.items[j].qty # response.generated[j].qty
    /\ \E j \in 1..response.looked_up :
           /\ ResponseStatRows(response.items[j].ref) = {}
           /\ response.items[j].qty = response.generated[j].qty

\* C6: no operation that applies tuning changes the qty of an item whose
\* pattern or statistic has fewer than 3 samples: not
\* apply_tuning_to_generation, whatever the pattern's confidence_score, and
\* not generate.
C6_CountGatesApplication ==
    /\ response.op = "apply_tuning" =>
           \A j \in 1..Len(response.items) :
               LET before == response.request.generated_items[j]
                   rows == PatternRows(patterns, response.request.company_id,
                                       <<response.request.rule_key, before.ref>>)
               IN  (\A x \in rows : x.sample_count < 3) => response.items[j].qty = before.qty
    /\ GeneratedOk =>
           \A j \in 1..Len(response.items) :
               (\A s \in ResponseStatRows(response.items[j].ref) : s.n < 3)
                   => response.items[j].qty = response.generated[j].qty

\* the tiers as the specification states them
SpecTier(n) == IF n < 3 THEN "low" ELSE IF n < 10 THEN "medium" ELSE "high"

\* C7: the tier reported for a sample count n is "low" for n < 3, "medium"
\* (generate writes it "med") for 3 <= n < 10 and "high" for n >= 10, in the
\* generate response and in the tuning insights.
C7_TierFromCount ==
    /\ GeneratedOk =>
           \A j \in 1..response.looked_up :
               LET rows == ResponseStatRows(response.items[j].ref)
                   n == IF rows = {} THEN 0 ELSE (CHOOSE s \in rows : TRUE).n
               IN  TierOf(response.items[j].ref) \subseteq
                       (IF SpecTier(n) = "medium" THEN {"med", "medium"} ELSE {SpecTier(n)})
    /\ response.op = "tuning_insights" =>
           \A it \in response.items : it.confidence = SpecTier(it.sample_count)

\* the rule, the entries (labor first) and the variables a generate response
\* was computed from
ResponseRule ==
    CHOOSE g \in GenerationRules :
        g.company_id = response.request.company_id /\ g.key = response.rule_key

ResponseEntries == ResponseRule.labor \o ResponseRule.materials

ResponseVariables ==
    CreateRulesEvaluator(
        (CHOOSE x \in ProjectRequirements : x.id = response.request.requirements_id).data
    ).variables

EntryFails(j) == ~Evaluate(ResponseEntries[j].expression, ResponseVariables).ok

IsLaborEntry(j) == j <= Len(ResponseRule.labor)

\* the item entry j gives when its expression evaluates to 0 without error
ZeroItem(j) ==
    IF IsLaborEntry(j)
    THEN PricedLabor(response.request.company_id, response.request.profile_id,
                     ResponseEntries[j].ref, RatInt(0))
    ELSE PricedMaterial(response.request.company_id, response.request.profile_id,
                        ResponseEntries[j].ref, RatInt(0))

\* C16: in a generate response there is one item per rule entry, and the item
\* of every entry whose expression failed to evaluate has qty 0 and carries a
\* warning: it differs from the item the entry gives when its expression
\* evaluates to 0 without error.
C16_FailedItemIsMarked ==
    GeneratedOk =>
        /\ Len(response.generated) = Len(ResponseEntries)
        /\ \A j \in 1..Len(ResponseEntries) :
               EntryFails(j) =>
                   /\ response.generated[j].qty = RatInt(0)
                   /\ response.generated[j] # ZeroItem(j)

\* the catalog rows of entry j: labor_rate rows for a labor entry, material
\* rows for a materials entry
CatalogRows(j) ==
    IF IsLaborEntry(j)
    THEN { l \in LaborRates : /\ l.company_id = response.request.company_id
                              /\ l.profile_id = response.request.profile_id
                              /\ l.code = ResponseEntries[j].ref }
    ELSE { m \in Materials : /\ m.company_id = response.request.company_id
                             /\ m.profile_id = response.request.profile_id
                             /\ m.sku = ResponseEntries[j].ref }

TuningLookupFailed == GeneratedOk /\ response.looked_up < Len(response.items)

\* C18: when the tuning store fails during the lookups of a generate call,
\* the response holds every item as generated: no qty or line_total was
\* changed by a factor and tuning_applied is empty.
C18_StoreFailureMeansNoTuning ==
    TuningLookupFailed =>
        /\ Len(response.items) = Len(ResponseEntries)
        /\ response.items = response.generated
        /\ response.tuning_applied = <<>>

\* the index of the lookup that failed in the call of a generate response (0:
\* none)
ResponseFailAt ==
    IF response.looked_up < Len(response.items) THEN response.looked_up + 1 ELSE 0

\* a generate call is made
GenerateCalled == response.op = "none" /\ response'.op = "generate"

C20_ApplierIsIdempotent ==
    response.op = "apply_tuning" =>
        /\ response.caller_items = response.request.generated_items
        /\ LET again == ApplyTuningToGeneration(patterns, response.request.company_id,
                                                response.request.rule_key,
                                                response.caller_items)
           IN  \A j \in 1..Len(response.items) : again[j] = response.items[j]

\* C26: in a generate response every item has line_total = qty * unit_price,
\* the items left as generated and the items whose qty was multiplied by a
\* tuning factor alike, and subtotal is the sum of the items' line totals.
C26_LineTotalIsQtyTimesPrice ==
    GeneratedOk =>
        /\ \A j \in 1..Len(response.items) :
               response.items[j].line_total
                   = RatMul(response.items[j].qty, response.items[j].unit_price)
        /\ response.subtotal
               = RatSum([j \in 1..Len(response.items) |->
                            RatMul(response.items[j].qty, response.items[j].unit_price)])

\* C26 witness: a response with a priced item whose qty a factor other than 1
\* changed, a priced item left as generated and an item without price.
C26_Witness ==
    /\ GeneratedOk
    /\ \E j \in 1..Len(response.items) :
           /\ response.items[j].qty # response.generated[j].qty
           /\ response.items[j].line_total # response.generated[j].line_total
    /\ \E j \in 1..Len(response.items) :
           /\ response.items[j] = response.generated[j]
           /\ response.items[j].line_total # RatInt(0)
    /\ \E j \in 1..Len(response.items) :
           /\ response.items[j].unit_price = RatInt(0)
           /\ response.items[j].qty # RatInt(0)

\* ------------------------------------------------------- evaluator claims
\* an evaluate call that has returned or raised
EvaluateDone == evaluation.pc = "done"

\* the step-by-step run ends as the function does
EvaluateStepsAgree ==
    EvaluateDone => evaluation.result = Evaluate(evaluation.expression, evaluation.variables)

\* C11: an evaluate call in which a division had a divisor that evaluated to
\* zero ends with an error and returns no value.
C11_DivisionByZeroFails ==
    (EvaluateDone /\ evaluation.zero_divisions > 0) => ~evaluation.result.ok

\* C12: evaluate returns no negative value and no value above 100000.
C12_ResultInRange ==
    (EvaluateDone /\ evaluation.result.ok) =>
        (evaluation.result.value >= 0 /\ evaluation.result.value <= 100000 * 100)

Whitespace == {" ", "\t", "\n"}

\* the expression holds a character outside the class and whitespace
HasForeignChar(expression) ==
    \E n \in 1..Len(expression) : expression[n] \notin (AllowedChars \cup Whitespace)

\* C13: an evaluate call on a string with a character outside
\* [0-9a-zA-Z_+-*/().,] and whitespace never gets past tokenize: it ends with
\* an error, no token reaches the parser's output or stack, no variable is
\* looked up and no operator or function is applied.
C13_ForeignCharFailsInTokenize ==
    (evaluation.pc # "idle" /\ HasForeignChar(evaluation.expression)) =>
        /\ evaluation.pc \in {"tokenize", "done"}
        /\ evaluation.pc = "done" => ~evaluation.result.ok
        /\ evaluation.output = <<>>
        /\ evaluation.operator_stack = <<>>
        /\ evaluation.stack = <<>>
        /\ evaluation.lookups = 0
        /\ evaluation.operations = 0

\* C13 witness: a call on "2^3" has ended with the character error.
C13_Witness ==
    /\ EvaluateDone
    /\ evaluation.expression = <<"2", "^", "3">>
    /\ evaluation.result = Fail("Expression contains invalid characters")

\* number of LEFT_PAREN minus number of RIGHT_PAREN before token n
ParenDepth(ts, n) ==
    Cardinality({ m \in 1..(n - 1) : ts[m].type = "LEFT_PAREN" })
        - Cardinality({ m \in 1..(n - 1) : ts[m].type = "RIGHT_PAREN" })

\* the operators of ts outside every pair of parentheses, by their texts
TopOperators(ts, texts) ==
    { n \in 1..Len(ts) : /\ ts[n].type = "OPERATOR"
                         /\ ts[n].value \in texts
                         /\ ParenDepth(ts, n) = 0 }

IllFormed == [ok |-> FALSE, error |-> "ill-formed"]

\* a op b with the arithmetic of OPERATORS
InfixApply(op, a, b) ==
    IF ~a.ok THEN a
    ELSE IF ~b.ok THEN b
    ELSE [ok |-> TRUE,
          value |-> IF op = <<"+">> THEN RatAdd(a.value, b.value)
                    ELSE IF op = <<"-">> THEN RatSub(a.value, b.value)
                    ELSE IF op = <<"*">> THEN RatMul(a.value, b.value)
                    ELSE RatDiv(a.value, b.value)]

\* the value of a number or variable token
InfixOperand(token, variables) ==
    IF token.type = "NUMBER" THEN [ok |-> TRUE, value |-> ParseNumber(token.value)]
    ELSE IF token.type # "VARIABLE" THEN IllFormed
    ELSE IF \E v \in variables : v.name = token.value /\ v.kind = "decimal"
    THEN [ok |-> TRUE,
          value |-> (CHOOSE v \in variables : v.name = token.value).value]
    ELSE [ok |-> FALSE, error |-> "no value"]

\* the infix reading of a token sequence: the last + or - outside
\* parentheses splits it; if there is none, the last * or / outside
\* parentheses does; otherwise it is one operand or a parenthesised sequence.
\* The result is the exact value, "no value" when an operand has none, or
\* "ill-formed" when the sequence is no infix expression.
RECURSIVE InfixValue(_, _)
InfixValue(ts, variables) ==
    LET low == TopOperators(ts, {<<"+">>, <<"-">>})
        high == TopOperators(ts, {<<"*">>, <<"/">>})
        at == IF low # {} THEN LastIndex(low) ELSE LastIndex(high)
    IN  IF ts = <<>> THEN IllFormed
        ELSE IF at # 0
        THEN LET a == InfixValue(SubSeq(ts, 1, at - 1), variables)
                 b == InfixValue(SubSeq(ts, at + 1, Len(ts)), variables)
             IN  IF a = IllFormed \/ b = IllFormed THEN IllFormed
                 ELSE InfixApply(ts[at].value, a, b)
        ELSE IF Len(ts) = 1 THEN InfixOperand(ts[1], variables)
        ELSE IF ts[1].type = "LEFT_PAREN" /\ ts[Len(ts)].type = "RIGHT_PAREN"
        THEN InfixValue(SubSeq(ts, 2, Len(ts) - 1), variables)
        ELSE IllFormed

\* the call was on a well-formed infix sequence of numbers, variables, binary
\* operators and parentheses, and tokenize has returned it
InfixCall ==
    /\ EvaluateDone
    /\ evaluation.i > Len(evaluation.e)
    /\ evaluation.tokens # <<>>
    /\ InfixValue(evaluation.tokens, evaluation.variables) # IllFormed

\* C14: for a well-formed infix token sequence the call returns the value of
\* the infix reading with * and / binding tighter than + and - and all four
\* left-associative (quantized to 0.01), and fails when an operand has no
\* value.
C14_RpnIsInfixReading ==
    InfixCall =>
        LET reading == InfixValue(evaluation.tokens, evaluation.variables)
        IN  IF reading.ok
            THEN /\ evaluation.result.ok
                 /\ evaluation.exact = reading.value
                 /\ evaluation.result.value = Quantize2(reading.value)
            ELSE ~evaluation.result.ok

\* C14 witness: a call on a sequence without parentheses in which a + or - is
\* followed by a * or /, and one in which two operators of the same level
\* follow each other with different results for the two groupings, has
\* returned a value.
C14_Witness ==
    /\ InfixCall
    /\ evaluation.result.ok
    /\ evaluation.e = <<"8", "-", "2", "-", "2">>
    /\ evaluation.result.value = 400

\* what is left to do in the current loop
EvalRemaining(ev) ==
    IF ev.pc = "tokenize" THEN Len(ev.e) + 1 - ev.i
    ELSE IF ev.pc = "parse" THEN Len(ev.tokens) + 1 - ev.j
    ELSE IF ev.pc = "rpn" THEN Len(ev.output) + 1 - ev.k
    ELSE 0

EvalRank(ev) ==
    IF ev.pc = "tokenize" THEN 3 ELSE IF ev.pc = "parse" THEN 2
    ELSE IF ev.pc = "rpn" THEN 1 ELSE 0

EvalRunning == evaluation.pc \in {"tokenize", "parse", "rpn"}

\* a step of a running call moves on to a later loop or advances the index
\* of the loop it is in
EvalAdvances ==
    EvalRunning =>
        /\ evaluation'.pc # "idle"
        /\ evaluation'.e = evaluation.e
        /\ \/ EvalRank(evaluation') < EvalRank(evaluation)
           \/ /\ EvalRank(evaluation') = EvalRank(evaluation)
              /\ EvalRemaining(evaluation') < EvalRemaining(evaluation)
              /\ EvalRemaining(evaluation') >= 0

\* value (hundredths) is the hundredth nearest to exact, a tie going away
\* from zero
RoundedHalfUp(exact, value) ==
    LET twice == 2 * Abs(100 * exact[1] - value * exact[2])
    IN  /\ twice <= exact[2]
        /\ twice = exact[2] => Abs(value) * exact[2] > 100 * Abs(exact[1])

\* C15: a running evaluate call can always take its next step, every step
\* advances the tokenizer's index or the loop it is in, the parser hands over
\* with an empty operator stack, and the call ends with an error or with the
\* value rounded half-up to two decimals.
C15_EvaluateTerminates ==
    /\ [][EvalAdvances]_vars
    /\ [](EvalRunning => ENABLED <<TokenizeLoop \/ ShuntingYardLoop \/ EvaluateRpnLoop>>_vars)
    /\ []((evaluation.pc = "rpn" \/ (EvaluateDone /\ evaluation.result.ok))
              => evaluation.operator_stack = <<>>)
    /\ []((EvaluateDone /\ evaluation.result.ok)
              => RoundedHalfUp(evaluation.exact, evaluation.result.value))

\* C15 witness: a call that went through all three loops has returned a
\* value that quantize had to round up.
C15_Witness ==
    /\ EvaluateDone
    /\ evaluation.result.ok
    /\ Len(evaluation.tokens) >= 3
    /\ evaluation.result.value * evaluation.exact[2] > 100 * evaluation.exact[1]

\* --------------------------------------------------- quote request claims
\* C21: every entry of the adjustment log, whichever operation appended it,
\* records a change of at least 1 % of its (positive) original quantity: no
\* smaller change creates an entry.
C21_LoggedChangeAtLeastOnePercent ==
    \A j \in 1..Len(adjustmentLog) :
        adjustmentLog[j].old_qty > 0 =>
            100 * Abs(adjustmentLog[j].new_qty - adjustmentLog[j].old_qty)
                >= adjustmentLog[j].old_qty

\* C22: the adjustment log is append-only: every step, whichever operation
\* takes it (a quote request, an adjustment request, a generate call, a
\* return), leaves each entry present at its place with its fields unchanged.
C22_LogIsAppendOnly ==
    [][ /\ Len(adjustmentLog') >= Len(adjustmentLog)
        /\ \A j \in 1..Len(adjustmentLog) : adjustmentLog'[j] = adjustmentLog[j] ]_vars

\* C22 witness: the log holds an entry of a quote request and, after it, one
\* of an adjustment request for the same company and item, and a generate
\* call has been answered since.
C22_Witness ==
    /\ GeneratedOk
    /\ \E j \in 1..Len(adjustmentLog) : \E m \in (j + 1)..Len(adjustmentLog) :
           /\ adjustmentLog[j].via \in {"helper", "basic"}
           /\ adjustmentLog[m].via = "engine"
           /\ adjustmentLog[m].company_id = adjustmentLog[j].company_id
           /\ adjustmentLog[m].item_ref = adjustmentLog[j].item_ref

\* a request that records adjustments is being answered for company c
RecordedFor(c) ==
    /\ response.op = "none"
    /\ response'.op \in {"create_quote", "log_quote_adjustment"}
    /\ response'.request.company_id = c

\* the rows of the other companies
OthersStats(stats, c) == { s \in stats : s.company_id # c }

OthersPatterns(pats, c) == { p \in pats : p.company_id # c }

\* the step leaves every row of another company as it was, and the log
\* entries it adds are of company c and of quotes of company c
WritesOnlyOwn(c) ==
    /\ OthersStats(tuningStats', c) = OthersStats(tuningStats, c)
    /\ OthersPatterns(patterns', c) = OthersPatterns(patterns, c)
    /\ Len(adjustmentLog') >= Len(adjustmentLog)
    /\ \A j \in 1..Len(adjustmentLog') :
           IF j <= Len(adjustmentLog) THEN adjustmentLog'[j] = adjustmentLog[j]
           ELSE /\ adjustmentLog'[j].company_id = c
                /\ QuoteCompany(adjustmentLog'[j].quote_id) = c

\* an adjustment request naming a quote of another company is refused and
\* changes nothing
ForeignQuoteRefused ==
    (response'.op = "log_quote_adjustment"
        /\ QuoteCompany(response'.request.quote_id) # response'.request.company_id)
    => /\ response'.status = 404
       /\ UNCHANGED <<adjustmentLog, tuningStats, patterns>>

\* the catalog prices of company c under profile p for entry ref
OwnPrices(c, p, ref) ==
    { Rat(l.unit_price, 100) :
          l \in { x \in LaborRates : x.company_id = c /\ x.profile_id = p /\ x.code = ref } }
    \cup
    { RatMul(Rat(m.unit_cost, 100), RatAdd(RatInt(1), Rat(m.markup_pct, 10000))) :
          m \in { x \in Materials : x.company_id = c /\ x.profile_id = p /\ x.sku = ref } }

\* a generate response of company c is what the call gives on c's tuning
\* statistics alone; its requirements, profile and rule are rows of c, and
\* every price in it is one of c's catalog under the profile
GeneratedFromOwn ==
    GeneratedOk =>
        LET c == response.request.company_id
        IN  /\ response = GenerateResponse(tuningStats \ OthersStats(tuningStats, c), c,
                                           response.request.requirements_id,
                                           response.request.profile_id, ResponseFailAt)
            /\ \E x \in ProjectRequirements :
                   x.id = response.request.requirements_id /\ x.company_id = c
            /\ \E x \in PriceProfiles :
                   x.id = response.request.profile_id /\ x.company_id = c
            /\ \E g \in GenerationRules :
                   /\ g.company_id = c
                   /\ g.key = response.rule_key
                   /\ Len(response.items) = Len(g.labor) + Len(g.materials)
            /\ \A j \in 1..Len(response.items) :
                   response.items[j].unit_price \in
                       OwnPrices(c, response.request.profile_id, response.items[j].ref)
                           \cup {RatInt(0)}

\* C23: a request of company A that records adjustments adds only entries of
\* A for quotes of A and leaves every statistic and pattern of another company
\* as it was; an adjustment naming a quote of another company changes
\* nothing; a generate response of A is computed from A's requirements,
\* profile, rule, catalog and statistics only and is the same whatever
\* statistics another company has.
C23_TenantIsolation ==
    /\ [][ \A c \in Companies : RecordedFor(c) => WritesOnlyOwn(c) ]_vars
    /\ [][ForeignQuoteRefused]_vars
    /\ []GeneratedFromOwn

\* C23 witness: company A's generate response has an item changed by A's
\* factor while company B holds a different statistic for the same rule key
\* and item.
C23_Witness ==
    /\ GeneratedOk
    /\ response.request.company_id = "A"
    /\ response.tuning_applied # <<>>
    /\ \E s \in tuningStats : \E t \in tuningStats :
           /\ s.company_id = "A" /\ t.company_id = "B"
           /\ s.key = response.rule_key /\ t.key = s.key /\ t.item_ref = s.item_ref
           /\ <<t.median_factor, t.n>> # <<s.median_factor, s.n>>
           /\ ListedAsTuned(s.item_ref)

\* the raw factor section 4.6 gives a logged adjustment
SpecRawFactor(e) == IF e.old_qty <= 0 THEN FScale ELSE Ratio(e.old_qty, e.new_qty)

\* C24: the tuning update of a logged adjustment whose original quantity is
\* zero or negative uses the raw factor 1.0, and new_qty / original_qty
\* otherwise, in both implementations: a statistic made from one adjustment
\* holds the clamped raw factor and a pattern made from one adjustment holds
\* the raw factor.
C24_FallbackFactorIsOne ==
    /\ \A s \in tuningStats :
           LET mine == LoggedFor("helper", s.company_id, s.key, s.item_ref)
           IN  Len(mine) = 1 =>
                   s.median_factor = StoreNumeric3(2 * Clamp(SpecRawFactor(mine[1])))
    /\ \A p \in patterns :
           LET mine == LoggedFor("engine", p.company_id, p.pattern_key[1], p.pattern_key[2])
           IN  Len(mine) = 1 => p.adjustment_factor = SpecRawFactor(mine[1])

\* ------------------------------------------- evaluator claims, continued
\* tokenize's loop has run to the end of the string
TokenizeDone == evaluation.i > Len(evaluation.e)

\* a variable token whose name has no numeric binding
Unusable(token, variables) ==
    /\ token.type = "VARIABLE"
    /\ ~\E v \in variables : v.name = token.value /\ v.kind = "decimal"

UnusableTokens(tokens, variables) ==
    { j \in 1..Len(tokens) : Unusable(tokens[j], variables) }

\* the errors the unusable variables of the tokens stand for
VariableErrors(tokens, variables) ==
    { IF Bound(variables, tokens[j].value) = {} THEN "Undefined variable"
      ELSE "Variable is a string" : j \in UnusableTokens(tokens, variables) }

\* the bindings with every unusable name of the tokens bound to the number 1
WithNumbers(tokens, variables) ==
    { v \in variables : v.kind = "decimal" }
        \cup { DecimalVar(tokens[j].value, RatInt(1)) : j \in UnusableTokens(tokens, variables) }

\* C25: an evaluate call on an expression that names a variable without
\* binding, or one bound to a string, returns no value, wherever the variable
\* stands (the branch of case() that is not taken included); when the
\* expression evaluates once these names are bound to numbers, the error is
\* the undefined-variable error or the string-variable error of one of them.
C25_UnusableVariableFails ==
    (EvaluateDone /\ TokenizeDone
        /\ UnusableTokens(evaluation.tokens, evaluation.variables) # {}) =>
        /\ ~evaluation.result.ok
        /\ Evaluate(evaluation.expression,
                    WithNumbers(evaluation.tokens, evaluation.variables)).ok
               => evaluation.result.error
                      \in VariableErrors(evaluation.tokens, evaluation.variables)

\* C25 witness: the call on "case(0,roomType,8)", whose condition selects
\* the branch without the string variable, has ended with the string-variable
\* error.
C25_Witness ==
    /\ EvaluateDone
    /\ evaluation.e = <<"c", "a", "s", "e", "(", "0", ",", "r", "o", "o", "m", "T", "y", "p", "e", ",", "8", ")">>
    /\ Bound(evaluation.variables, NameRoomType) # {}
    /\ evaluation.result = Fail("Variable is a string")

\* the least integer >= x and the greatest integer <= x of a rational x
ExactCeil(x) == -((-x[1]) \div x[2])

ExactFloor(x) == x[1] \div x[2]

\* the next pass of _evaluate_rpn's loop applies ceil or floor to a
\* non-negative argument
CeilOrFloorNext ==
    /\ evaluation.pc = "rpn"
    /\ evaluation.k <= Len(evaluation.output)
    /\ evaluation.output[evaluation.k].type = "FUNCTION"
    /\ evaluation.output[evaluation.k].value
           \in { <<"c", "e", "i", "l">>, <<"f", "l", "o", "o", "r">> }
    /\ Len(evaluation.stack) >= 1
    /\ FromTop(evaluation.stack, 1)[1] >= 0

\* C27: ceil pushes the least integer >= its argument and floor the greatest
\* integer <= its argument, taken of the exact value of the argument (ceil of
\* 2.001 is 3, floor of 2.999 is 2), for every non-negative argument.
C27_CeilFloorOfExactValue ==
    [][ CeilOrFloorNext =>
            /\ evaluation'.pc = "rpn"
            /\ FromTop(evaluation'.stack, 1) =
                   RatInt(IF evaluation.output[evaluation.k].value = <<"c", "e", "i", "l">>
                          THEN ExactCeil(FromTop(evaluation.stack, 1))
                          ELSE ExactFloor(FromTop(evaluation.stack, 1))) ]_vars

\* the number of parameters of a function of FUNCTIONS
FixedArity(name) ==
    IF name \in {<<"c", "e", "i", "l">>, <<"f", "l", "o", "o", "r">>, <<"r", "o", "u", "n", "d">>}
    THEN 1
    ELSE IF name = <<"c", "a", "s", "e">> THEN 3 ELSE 2

\* the commas of ts outside every pair of parentheses
TopCommas(ts) ==
    { n \in 1..Len(ts) : ts[n].type = "COMMA" /\ ParenDepth(ts, n) = 0 }

\* ts is a well-formed infix expression: an operand; two well-formed
\* expressions around a binary operator; a well-formed expression in
\* parentheses; or a function name followed by parentheses that hold as many
\* well-formed expressions as the function has parameters, separated by commas
RECURSIVE WellFormed(_)
WellFormed(ts) ==
    LET low == TopOperators(ts, {<<"+">>, <<"-">>})
        high == TopOperators(ts, {<<"*">>, <<"/">>})
        at == IF low # {} THEN LastIndex(low) ELSE LastIndex(high)
    IN  IF ts = <<>> THEN FALSE
        ELSE IF at # 0
        THEN WellFormed(SubSeq(ts, 1, at - 1)) /\ WellFormed(SubSeq(ts, at + 1, Len(ts)))
        ELSE IF Len(ts) = 1 THEN ts[1].type \in {"NUMBER", "VARIABLE"}
        ELSE IF ts[1].type = "LEFT_PAREN" /\ ts[Len(ts)].type = "RIGHT_PAREN"
        THEN WellFormed(SubSeq(ts, 2, Len(ts) - 1))
        ELSE IF /\ Len(ts) >= 3
                /\ ts[1].type = "FUNCTION"
                /\ ts[2].type = "LEFT_PAREN"
                /\ ts[Len(ts)].type = "RIGHT_PAREN"
        THEN LET inner == SubSeq(ts, 3, Len(ts) - 1)
                 ends == TopCommas(inner) \cup {Len(inner) + 1}
                 starts == TopCommas(inner) \cup {0}
             IN  /\ Cardinality(starts) = FixedArity(ts[1].value)
                 /\ \A b \in starts :
                        LET next == CHOOSE c \in ends :
                                        c > b /\ \A d \in ends : d > b => c <= d
                        IN  WellFormed(SubSeq(inner, b + 1, next - 1))
        ELSE FALSE

\* C28: evaluate returns a value only for a well-formed infix expression in
\* which every function has exactly its number of arguments inside its own
\* parentheses; two adjacent operands, an operand directly before a function
\* call and a call with too few or too many arguments yield no value.
C28_ValueOnlyForWellFormed ==
    (EvaluateDone /\ evaluation.result.ok) =>
        (TokenizeDone /\ WellFormed(evaluation.tokens))

\* ------------------------------------------ quote request claims, continued
\* POST /quotes/{quote_id}/adjustments has answered 200 for a quote of the
\* caller's company
AdjustmentAnswered ==
    /\ response.op = "log_quote_adjustment"
    /\ response.status = 200

\* C29: when AutoTuningEngine.log_adjustment has been called for a quote of
\* the tenant and the request has ended, the entry it returned is committed:
\* the log is one entry longer than before the call and ends with that entry,
\* whether or not the quote has project requirements.
C29_EngineEntryCommitted ==
    AdjustmentAnswered =>
        /\ Len(adjustmentLog) = response.logged_before + 1
        /\ adjustmentLog[Len(adjustmentLog)] = response.entry

\* the final items of a quote request whose quantity differs from that of
\* their source item by at least 1 %
ChangedItems(request) ==
    { j \in 1..Len(request.items) :
        LET at == SourceIndex(request.source_items, request.items[j].ref)
        IN  /\ request.items[j].ref # ""
            /\ at # 0
            /\ AboveThreshold(request.source_items[at].qty, request.items[j].qty) }

\* the change of final item j: its ref, the source quantity, its quantity
ChangeAt(request, j) ==
    <<request.items[j].ref,
      request.source_items[SourceIndex(request.source_items, request.items[j].ref)].qty,
      request.items[j].qty>>

\* the entries the answered request has appended to the log
Appended == SubSeq(adjustmentLog, response.logged_before + 1, Len(adjustmentLog))

\* C30: when create_quote has answered, every final item that differs from
\* its source by at least 1 % has exactly one appended log entry and nothing
\* else was appended, also when the tuning helper fails after it has written
\* the entry: no change is logged twice and none is lost.
C30_OneEntryPerChange ==
    response.op = "create_quote" =>
        /\ Len(Appended) = Cardinality(ChangedItems(response.request))
        /\ \A j \in ChangedItems(response.request) :
               Cardinality({ n \in 1..Len(Appended) :
                               <<Appended[n].item_ref, Appended[n].old_qty, Appended[n].new_qty>>
                                   = ChangeAt(response.request, j) })
                   = Cardinality({ m \in ChangedItems(response.request) :
                                     ChangeAt(response.request, m) = ChangeAt(response.request, j) })

====
